---- MODULE Spec2Model ----
(***************************************************************************)
(* A model of the VideoReach AI prospect pipeline: the confidence scorer   *)
(* (confidence_scorer.py) and the sequential agent pipeline of the audit   *)
(* engine (audit_engine.py).                                               *)
(*                                                                         *)
(* Python floats are modelled as exact rationals <<numerator,              *)
(* denominator>> in lowest terms; Python str values are modelled as        *)
(* sequences of one-character strings wherever the code looks inside them. *)
(***************************************************************************)
EXTENDS Integers, Sequences, FiniteSets, TLC

VARIABLES
    enriched_data,      \* argument of ConfidenceScorer.score_enriched_data
    report,             \* the ConfidenceReport built by score_enriched_data
    score_status,       \* "idle" | "returned" | "raised"
    dp,                 \* one DataPoint
    clock,              \* datetime.now(), in hours
    dp_prev,            \* the DataPoint's previous calculate_confidence call
    company_data,       \* result of research_prospect
    audit_pc,           \* position of generate_audit
    agent_outputs,      \* generate_audit's local list agent_outputs
    context,            \* generate_audit's local dict context
    stage_log,          \* the stages entered so far, each with the outputs it saw
    audit_report,       \* the AutomationAuditReport returned, once returned
    audit_result,       \* "running" | "returned" | "raised"
    architect,          \* a SolutionArchitect called on its own: its input and outputs
    baseline,           \* an IndustryBaselineAgent called on its own: its input and output
    limiter,            \* a RateLimiter, the clock, and the threads that call it
    cache,              \* a CacheManager, the clock, and the last call made on it
    shared_cache,       \* a CacheManager and the threads that call set on one key
    enrichment,         \* one enrich_company run: the providers' results and the merged profile
    did,                \* one generate_video_did call and its polling of the talk status
    api,                \* the generate-video endpoint: the request in hand and its response
    detector,           \* an InefficiencyDetector called on its own: its input and output
    compiler,           \* a ReportCompiler called on its own: the sequence it is given and its roadmap
    pipeline,           \* an OptimizedPipeline: its cache, its clock and its last call
    faceless_pipeline   \* a FacelessVideoPipeline: the call of process_prospect and its result

scorerVars == <<enriched_data, report, score_status>>
dpVars == <<dp, clock, dp_prev>>
auditVars == <<company_data, audit_pc, agent_outputs, context, stage_log, audit_report, audit_result>>
architectVars == <<architect>>
baselineVars == <<baseline>>
limiterVars == <<limiter>>
cacheVars == <<cache>>
sharedCacheVars == <<shared_cache>>
enrichmentVars == <<enrichment>>
didVars == <<did>>
apiVars == <<api>>
detectorVars == <<detector>>
compilerVars == <<compiler>>
pipelineVars == <<pipeline>>
facelessVars == <<faceless_pipeline>>
vars == <<scorerVars, dpVars, auditVars, architectVars, baselineVars, limiterVars, cacheVars, sharedCacheVars, enrichmentVars, didVars, apiVars, detectorVars, compilerVars, pipelineVars, facelessVars>>

----------------------------------------------------------------------------
(* Exact rational arithmetic for Python float expressions.                 *)

Abs(x) == IF x < 0 THEN -x ELSE x

RECURSIVE GCD(_, _)
GCD(a, b) == IF b = 0 THEN a ELSE GCD(b, a % b)

\* n/d in lowest terms, d > 0
Rat(n, d) == LET g == GCD(Abs(n), d) IN <<n \div g, d \div g>>

Pct(n) == Rat(n, 100)

RZero == <<0, 1>>
ROne  == <<1, 1>>

LCM(a, b) == (a \div GCD(a, b)) * b

RAdd(a, b) ==
    LET l == LCM(a[2], b[2])
    IN  Rat(a[1] * (l \div a[2]) + b[1] * (l \div b[2]), l)

RMul(a, b) ==
    LET g1 == GCD(Abs(a[1]), b[2])
        g2 == GCD(Abs(b[1]), a[2])
    IN  <<(a[1] \div g1) * (b[1] \div g2), (a[2] \div g2) * (b[2] \div g1)>>

\* a / b for b > 0
RDiv(a, b) == RMul(a, <<b[2], b[1]>>)

RLt(a, b) ==
    LET l == LCM(a[2], b[2])
    IN  a[1] * (l \div a[2]) < b[1] * (l \div b[2])

RLe(a, b) == ~RLt(b, a)

\* Python's min(a, b) and max(a, b) on floats
RMin(a, b) == IF RLt(b, a) THEN b ELSE a
RMax(a, b) == IF RLt(a, b) THEN b ELSE a

RECURSIVE RSum(_)
RSum(seq) == IF seq = <<>> THEN RZero ELSE RAdd(Head(seq), RSum(Tail(seq)))

----------------------------------------------------------------------------
(* Python str operations on character sequences.                           *)

UpperToLower ==
    [c \in {"A", "B", "C", "D", "E", "F", "G", "H", "I", "J", "K", "L", "M",
            "N", "O", "P", "Q", "R", "S", "T", "U", "V", "W", "X", "Y", "Z"} |->
        CASE c = "A" -> "a" [] c = "B" -> "b" [] c = "C" -> "c" [] c = "D" -> "d"
          [] c = "E" -> "e" [] c = "F" -> "f" [] c = "G" -> "g" [] c = "H" -> "h"
          [] c = "I" -> "i" [] c = "J" -> "j" [] c = "K" -> "k" [] c = "L" -> "l"
          [] c = "M" -> "m" [] c = "N" -> "n" [] c = "O" -> "o" [] c = "P" -> "p"
          [] c = "Q" -> "q" [] c = "R" -> "r" [] c = "S" -> "s" [] c = "T" -> "t"
          [] c = "U" -> "u" [] c = "V" -> "v" [] c = "W" -> "w" [] c = "X" -> "x"
          [] c = "Y" -> "y" [] c = "Z" -> "z"]

\* str.lower()
StrLower(s) ==
    [i \in DOMAIN s |-> IF s[i] \in DOMAIN UpperToLower THEN UpperToLower[s[i]] ELSE s[i]]

\* needle in hay
StrContains(needle, hay) ==
    \E i \in 0..(Len(hay) - Len(needle)) :
        SubSeq(hay, i + 1, i + Len(needle)) = needle

----------------------------------------------------------------------------
(* confidence_scorer.py: Python values of the enriched-data mapping.       *)

\* A Python value: k is its type, n its length (list, dict), its value (int), its
\* value in hundredths (float) or its age in whole days (isostr: a str in ISO
\* format naming a moment n days before datetime.now()); s is the text of a str.
PyNone     == [k |-> "none",   n |-> 0, s |-> <<>>]
PyList(n)  == [k |-> "list",   n |-> n, s |-> <<>>]
PyDict(n)  == [k |-> "dict",   n |-> n, s |-> <<>>]
PyStr(s)   == [k |-> "str",    n |-> 0, s |-> s]
PyInt(n)   == [k |-> "int",    n |-> n, s |-> <<>>]
PyFloat(h) == [k |-> "float",  n |-> h, s |-> <<>>]
PyIso(d)   == [k |-> "isostr", n |-> d, s |-> <<"i", "s", "o">>]
\* marks a key that the mapping does not hold
Absent     == [k |-> "absent", n |-> 0, s |-> <<>>]

IsStr(v)    == v.k \in {"str", "isostr"}
IsNumber(v) == v.k \in {"int", "float"}

\* bool(v)
Truthy(v) ==
    CASE v.k = "none" -> FALSE
      [] v.k \in {"list", "dict"} -> v.n > 0
      [] v.k \in {"str", "isostr"} -> Len(v.s) > 0
      [] OTHER -> v.n # 0

\* float(v) of an int or a float
PyFloatOf(v) == IF v.k = "int" THEN Rat(v.n, 1) ELSE Rat(v.n, 100)

DigitChar(d) ==
    CASE d = 0 -> "0" [] d = 1 -> "1" [] d = 2 -> "2" [] d = 3 -> "3" [] d = 4 -> "4"
      [] d = 5 -> "5" [] d = 6 -> "6" [] d = 7 -> "7" [] d = 8 -> "8" [] d = 9 -> "9"

RECURSIVE NatStr(_)
NatStr(n) == IF n < 10 THEN <<DigitChar(n)>> ELSE Append(NatStr(n \div 10), DigitChar(n % 10))

\* str(v) of a str or a non-negative int
PyStrOf(v) == IF IsStr(v) THEN v.s ELSE NatStr(v.n)

\* the text of a field name
NameChars(f) ==
    CASE f = "company_name" -> <<"c", "o", "m", "p", "a", "n", "y", "_", "n", "a", "m", "e">>
      [] f = "website" -> <<"w", "e", "b", "s", "i", "t", "e">>
      [] f = "industry" -> <<"i", "n", "d", "u", "s", "t", "r", "y">>
      [] f = "company_size" -> <<"c", "o", "m", "p", "a", "n", "y", "_", "s", "i", "z", "e">>
      [] f = "tech_stack" -> <<"t", "e", "c", "h", "_", "s", "t", "a", "c", "k">>
      [] f = "revenue_range" -> <<"r", "e", "v", "e", "n", "u", "e", "_", "r", "a", "n", "g", "e">>
      [] f = "founded_year" -> <<"f", "o", "u", "n", "d", "e", "d", "_", "y", "e", "a", "r">>
      [] f = "headquarters" -> <<"h", "e", "a", "d", "q", "u", "a", "r", "t", "e", "r", "s">>
      [] f = "automation_opportunities" -> <<"a", "u", "t", "o", "m", "a", "t", "i", "o", "n", "_", "o", "p", "p", "o", "r", "t", "u", "n", "i", "t", "i", "e", "s">>
      [] f = "digital_maturity_score" -> <<"d", "i", "g", "i", "t", "a", "l", "_", "m", "a", "t", "u", "r", "i", "t", "y", "_", "s", "c", "o", "r", "e">>
      [] f = "growth_signals" -> <<"g", "r", "o", "w", "t", "h", "_", "s", "i", "g", "n", "a", "l", "s">>
      [] f = "pain_indicators" -> <<"p", "a", "i", "n", "_", "i", "n", "d", "i", "c", "a", "t", "o", "r", "s">>
      [] f = "trigger_events" -> <<"t", "r", "i", "g", "g", "e", "r", "_", "e", "v", "e", "n", "t", "s">>
      [] f = "competitors" -> <<"c", "o", "m", "p", "e", "t", "i", "t", "o", "r", "s">>
      [] f = "recent_news" -> <<"r", "e", "c", "e", "n", "t", "_", "n", "e", "w", "s">>
      [] f = "social_metrics" -> <<"s", "o", "c", "i", "a", "l", "_", "m", "e", "t", "r", "i", "c", "s">>
      [] f = "tech_spend_estimate" -> <<"t", "e", "c", "h", "_", "s", "p", "e", "n", "d", "_", "e", "s", "t", "i", "m", "a", "t", "e">>
      [] f = "funding_total" -> <<"f", "u", "n", "d", "i", "n", "g", "_", "t", "o", "t", "a", "l">>
      [] f = "funding_stage" -> <<"f", "u", "n", "d", "i", "n", "g", "_", "s", "t", "a", "g", "e">>
      [] f = "job_postings" -> <<"j", "o", "b", "_", "p", "o", "s", "t", "i", "n", "g", "s">>
      [] f = "enrichment_sources" -> <<"e", "n", "r", "i", "c", "h", "m", "e", "n", "t", "_", "s", "o", "u", "r", "c", "e", "s">>
      [] f = "last_updated" -> <<"l", "a", "s", "t", "_", "u", "p", "d", "a", "t", "e", "d">>
      [] f = "Model_Confidence" -> <<"M", "o", "d", "e", "l", "_", "C", "o", "n", "f", "i", "d", "e", "n", "c", "e">>

StrUnknown == <<"U", "n", "k", "n", "o", "w", "n">>
StrConfidence == <<"c", "o", "n", "f", "i", "d", "e", "n", "c", "e">>

----------------------------------------------------------------------------
(* ConfidenceScorer                                                        *)

CRITICAL_FIELDS ==
    {"company_name", "website", "industry", "company_size", "tech_stack",
     "automation_opportunities"}

\* field importance weights, in hundredths
FIELD_WEIGHTS ==
    [f \in {"company_name", "website", "industry", "company_size", "tech_stack",
            "revenue_range", "founded_year", "headquarters",
            "automation_opportunities", "digital_maturity_score", "growth_signals",
            "pain_indicators", "trigger_events", "competitors", "recent_news",
            "social_metrics"} |->
        CASE f = "company_name" -> 100
          [] f = "website" -> 100
          [] f = "industry" -> 90
          [] f = "company_size" -> 80
          [] f = "tech_stack" -> 90
          [] f = "revenue_range" -> 70
          [] f = "founded_year" -> 50
          [] f = "headquarters" -> 40
          [] f = "automation_opportunities" -> 95
          [] f = "digital_maturity_score" -> 85
          [] f = "growth_signals" -> 70
          [] f = "pain_indicators" -> 80
          [] f = "trigger_events" -> 60
          [] f = "competitors" -> 50
          [] f = "recent_news" -> 40
          [] f = "social_metrics" -> 30]

\* ConfidenceReport(): the dataclass defaults
NewConfidenceReport ==
    [overall_confidence           |-> RZero,
     data_completeness            |-> RZero,
     source_diversity             |-> RZero,
     data_freshness               |-> RZero,
     company_info_confidence      |-> RZero,
     technology_confidence        |-> RZero,
     financial_confidence         |-> RZero,
     market_confidence            |-> RZero,
     automation_confidence        |-> RZero,
     field_confidences            |-> <<>>,
     missing_critical_data        |-> {},
     low_confidence_fields        |-> {},
     high_confidence_fields       |-> {},
     confidence_warnings          |-> <<>>,
     data_improvement_suggestions |-> <<>>]

\* value is None or (isinstance(value, (list, dict)) and not value)
IsMissingValue(v) == v.k = "none" \/ (v.k \in {"list", "dict"} /\ v.n = 0)

\* any(num in str(value) for num in ['1', '5', '10', '50', '200', '1000'])
HasSizeNumber(v) ==
    \E num \in {<<"1">>, <<"5">>, <<"1", "0">>, <<"5", "0">>, <<"2", "0", "0">>,
                <<"1", "0", "0", "0">>} : StrContains(num, PyStrOf(v))

\* the base confidence chosen by the if/elif chain of _estimate_field_confidence;
\* direct is TRUE when the chain returns at once (a field named as a confidence)
BaseConfidence(field_name, value) ==
    IF field_name = "company_name" /\ Truthy(value) THEN
        [direct |-> FALSE, c |-> Pct(95)]
    ELSE IF field_name = "website" /\ Truthy(value) THEN
        [direct |-> FALSE, c |-> Pct(100)]
    ELSE IF field_name = "tech_stack" /\ value.k = "list" THEN
        [direct |-> FALSE,
         c |-> IF value.n > 10 THEN Pct(85) ELSE IF value.n > 5 THEN Pct(70) ELSE Pct(50)]
    ELSE IF field_name = "industry" /\ ~(value.k = "str" /\ value.s = StrUnknown) THEN
        [direct |-> FALSE, c |-> Pct(75)]
    ELSE IF field_name = "company_size" /\ ~(value.k = "str" /\ value.s = StrUnknown) THEN
        [direct |-> FALSE, c |-> IF HasSizeNumber(value) THEN Pct(70) ELSE Pct(40)]
    ELSE IF field_name = "digital_maturity_score" /\ IsNumber(value) THEN
        [direct |-> FALSE, c |-> Pct(65)]
    ELSE IF field_name = "automation_opportunities" /\ value.k = "list" THEN
        [direct |-> FALSE, c |-> IF value.n > 0 THEN Pct(70) ELSE Pct(50)]
    ELSE IF StrContains(StrConfidence, StrLower(NameChars(field_name))) THEN
        [direct |-> TRUE, c |-> IF IsNumber(value) THEN PyFloatOf(value) ELSE Pct(50)]
    ELSE
        [direct |-> FALSE, c |-> Pct(50)]

\* _estimate_field_confidence
EstimateFieldConfidence(field_name, value) ==
    LET b == BaseConfidence(field_name, value)
        weighted == IF field_name \in DOMAIN FIELD_WEIGHTS
                    THEN RMul(b.c, Pct(FIELD_WEIGHTS[field_name]))
                    ELSE b.c
    IN  IF b.direct THEN b.c ELSE RMin(ROne, weighted)

\* the confidence _analyze_fields records for one field
FieldConfidence(field_name, value) ==
    IF IsMissingValue(value) THEN RZero ELSE EstimateFieldConfidence(field_name, value)

\* _analyze_fields
AnalyzeFields(data, rep) ==
    LET fc == [f \in DOMAIN data |-> FieldConfidence(f, data[f])]
    IN  [rep EXCEPT
            !.field_confidences = fc,
            !.missing_critical_data =
                {f \in DOMAIN data : IsMissingValue(data[f]) /\ f \in CRITICAL_FIELDS},
            !.low_confidence_fields = {f \in DOMAIN data : RLt(fc[f], Pct(30))},
            !.high_confidence_fields = {f \in DOMAIN data : RLt(Pct(70), fc[f])}]

\* FIELD_WEIGHTS.get(field, 0.5)
WeightOf(field) ==
    IF field \in DOMAIN FIELD_WEIGHTS THEN Pct(FIELD_WEIGHTS[field]) ELSE Pct(50)

RECURSIVE WeightedSum(_, _)
WeightedSum(fields, fc) ==
    IF fields = <<>> THEN RZero
    ELSE IF Head(fields) \in DOMAIN fc
         THEN RAdd(RMul(fc[Head(fields)], WeightOf(Head(fields))), WeightedSum(Tail(fields), fc))
         ELSE WeightedSum(Tail(fields), fc)

RECURSIVE TotalWeight(_, _)
TotalWeight(fields, fc) ==
    IF fields = <<>> THEN RZero
    ELSE IF Head(fields) \in DOMAIN fc
         THEN RAdd(WeightOf(Head(fields)), TotalWeight(Tail(fields), fc))
         ELSE TotalWeight(Tail(fields), fc)

\* _average_field_confidence
AverageFieldConfidence(fields, fc) ==
    IF RLt(RZero, TotalWeight(fields, fc))
    THEN RDiv(WeightedSum(fields, fc), TotalWeight(fields, fc))
    ELSE RZero

\* _calculate_category_confidences
CalculateCategoryConfidences(data, rep) ==
    [rep EXCEPT
        !.company_info_confidence = AverageFieldConfidence(
            <<"company_name", "website", "industry", "company_size", "founded_year",
              "headquarters", "revenue_range">>, rep.field_confidences),
        !.technology_confidence = AverageFieldConfidence(
            <<"tech_stack", "digital_maturity_score", "tech_spend_estimate">>,
            rep.field_confidences),
        !.financial_confidence = AverageFieldConfidence(
            <<"revenue_range", "funding_total", "funding_stage", "tech_spend_estimate">>,
            rep.field_confidences),
        !.market_confidence = AverageFieldConfidence(
            <<"competitors", "recent_news", "job_postings", "social_metrics">>,
            rep.field_confidences),
        !.automation_confidence = AverageFieldConfidence(
            <<"automation_opportunities", "pain_indicators", "growth_signals">>,
            rep.field_confidences)]

\* len(v); it raises TypeError for None and for numbers
HasLen(v) == v.k \in {"list", "dict", "str", "isostr"}
PyLen(v)  == IF v.k \in {"list", "dict"} THEN v.n ELSE Len(v.s)

\* _assess_data_quality raises: len(sources) of a value that has no len()
AssessDataQualityRaises(data) ==
    "enrichment_sources" \in DOMAIN data /\ ~HasLen(data["enrichment_sources"])

\* the freshness read from last_updated
FreshnessOf(data) ==
    IF "last_updated" \in DOMAIN data THEN
        LET last_updated == data["last_updated"]
        IN  IF IsStr(last_updated) THEN
                IF last_updated.k = "isostr" THEN
                    IF last_updated.n < 1 THEN Pct(100)
                    ELSE IF last_updated.n < 7 THEN Pct(85)
                    ELSE IF last_updated.n < 30 THEN Pct(70)
                    ELSE Pct(50)
                ELSE Pct(50)    \* fromisoformat raised: the bare except
            ELSE Pct(50)
    ELSE Pct(50)

\* _assess_data_quality, when it does not raise
AssessDataQuality(data, rep) ==
    LET total_fields == Cardinality(DOMAIN FIELD_WEIGHTS)
        filled_fields == Cardinality({f \in DOMAIN FIELD_WEIGHTS :
                                        f \in DOMAIN data /\ Truthy(data[f])})
    IN  [rep EXCEPT
            !.data_completeness = IF total_fields > 0 THEN Rat(filled_fields, total_fields)
                                  ELSE RZero,
            !.source_diversity =
                IF "enrichment_sources" \in DOMAIN data
                THEN RMin(ROne, Rat(PyLen(data["enrichment_sources"]), 3))
                ELSE Pct(30),
            !.data_freshness = FreshnessOf(data)]

WarnLowOverall ==
    "Overall confidence is low - recommendations should be validated with additional research"
WarnMissingCritical == "Missing critical data"
WarnIncomplete == "Less than 50% of data fields are populated"
WarnDiversity == "Limited data source diversity - consider additional enrichment"

SuggestCompany == "Enrich company information using verified business databases"
SuggestTechnology == "Perform deeper technology stack analysis with specialized tools"
SuggestFinancial ==
    "Add financial data from public filings or business intelligence sources"
SuggestAutomation == "Conduct stakeholder interviews to validate automation opportunities"

\* the messages of seq whose condition holds, in order
RECURSIVE Collect(_)
Collect(seq) ==
    IF seq = <<>> THEN <<>>
    ELSE IF Head(seq).when THEN <<Head(seq).msg>> \o Collect(Tail(seq))
         ELSE Collect(Tail(seq))

\* _generate_recommendations
GenerateRecommendations(rep) ==
    [rep EXCEPT
        !.confidence_warnings = rep.confidence_warnings \o Collect(<<
            [when |-> RLt(rep.overall_confidence, Pct(50)), msg |-> WarnLowOverall],
            [when |-> rep.missing_critical_data # {}, msg |-> WarnMissingCritical],
            [when |-> RLt(rep.data_completeness, Pct(50)), msg |-> WarnIncomplete],
            [when |-> RLt(rep.source_diversity, Pct(50)), msg |-> WarnDiversity]>>),
        !.data_improvement_suggestions = rep.data_improvement_suggestions \o Collect(<<
            [when |-> RLt(rep.company_info_confidence, Pct(70)), msg |-> SuggestCompany],
            [when |-> RLt(rep.technology_confidence, Pct(70)), msg |-> SuggestTechnology],
            [when |-> RLt(rep.financial_confidence, Pct(50)), msg |-> SuggestFinancial],
            [when |-> RLt(rep.automation_confidence, Pct(70)), msg |-> SuggestAutomation]>>)]

\* a plausible slip: the score returned as a percentage
CalculateOverallConfidencePercent(rep) ==
    RMul(RSum(<<RMul(rep.company_info_confidence, Pct(20)),
                RMul(rep.technology_confidence, Pct(25)),
                RMul(rep.automation_confidence, Pct(30)),
                RMul(rep.data_completeness, Pct(10)),
                RMul(rep.source_diversity, Pct(10)),
                RMul(rep.data_freshness, Pct(5))>>), <<100, 1>>)

\* a plausible slip: the penalty for missing critical data written as a bonus
CalculateOverallConfidenceBonus(rep) ==
    LET weighted_sum == RSum(<<RMul(rep.company_info_confidence, Pct(20)),
                               RMul(rep.technology_confidence, Pct(25)),
                               RMul(rep.automation_confidence, Pct(30)),
                               RMul(rep.data_completeness, Pct(10)),
                               RMul(rep.source_diversity, Pct(10)),
                               RMul(rep.data_freshness, Pct(5))>>)
        p1 == IF rep.missing_critical_data # {} THEN RMul(weighted_sum, Pct(120))
              ELSE weighted_sum
        p2 == IF RLt(rep.data_completeness, Pct(30)) THEN RMul(p1, Pct(70)) ELSE p1
    IN  RMin(ROne, RMax(RZero, p2))

\* a plausible slip: the penalty for very incomplete data left out
CalculateOverallConfidenceNoIncompletePenalty(rep) ==
    LET weighted_sum == RSum(<<RMul(rep.company_info_confidence, Pct(20)),
                               RMul(rep.technology_confidence, Pct(25)),
                               RMul(rep.automation_confidence, Pct(30)),
                               RMul(rep.data_completeness, Pct(10)),
                               RMul(rep.source_diversity, Pct(10)),
                               RMul(rep.data_freshness, Pct(5))>>)
        p1 == IF rep.missing_critical_data # {} THEN RMul(weighted_sum, Pct(80))
              ELSE weighted_sum
    IN  RMin(ROne, RMax(RZero, p1))

\* _calculate_overall_confidence
CalculateOverallConfidence(rep) ==
    LET weighted_sum == RSum(<<RMul(rep.company_info_confidence, Pct(20)),
                               RMul(rep.technology_confidence, Pct(25)),
                               RMul(rep.automation_confidence, Pct(30)),
                               RMul(rep.data_completeness, Pct(10)),
                               RMul(rep.source_diversity, Pct(10)),
                               RMul(rep.data_freshness, Pct(5))>>)
        p1 == IF rep.missing_critical_data # {} THEN RMul(weighted_sum, Pct(80))
              ELSE weighted_sum
        p2 == IF RLt(rep.data_completeness, Pct(30)) THEN RMul(p1, Pct(70)) ELSE p1
    IN  RMin(ROne, RMax(RZero, p2))

\* score_enriched_data when no step raises: the report it returns
ScoreEnrichedData(data) ==
    LET r1 == AnalyzeFields(data, NewConfidenceReport)
        r2 == CalculateCategoryConfidences(data, r1)
        r3 == AssessDataQuality(data, r2)
        r4 == GenerateRecommendations(r3)
    IN  [r4 EXCEPT !.overall_confidence = CalculateOverallConfidence(r4)]

\* score_enriched_data raises when one of its steps does
ScoreEnrichedDataRaises(data) == AssessDataQualityRaises(data)

----------------------------------------------------------------------------
(* Callers of score_enriched_data: the mappings the model passes in.       *)

MaxSources == 3
MaxTechStack == 11
MaxAgeDays == 30

StrTechCorp == <<"T", "e", "c", "h", "C", "o", "r", "p">>
StrUrl == <<"h", "t", "t", "p", "s", ":", "/", "/", "t", "c", ".", "i", "o">>
StrTechnology == <<"T", "e", "c", "h", "n", "o", "l", "o", "g", "y">>
StrSize51 == <<"5", "1", "-", "2", "0", "0", " ", "e", "m", "p", "l", "o", "y", "e", "e", "s">>

\* the mapping that holds the keys of choice that are not Absent
MakeDict(choice) == [f \in {g \in DOMAIN choice : choice[g] # Absent} |-> choice[f]]

\* the mappings passed to score_enriched_data
ScorerInputs ==
    {MakeDict(
        [f \in {"company_name", "website", "industry", "company_size",
                "tech_stack", "automation_opportunities",
                "digital_maturity_score", "Model_Confidence",
                "enrichment_sources", "last_updated"} |->
            CASE f = "company_name" -> c[1]
              [] f = "website" -> c[2]
              [] f = "industry" -> c[3]
              [] f = "company_size" -> c[4]
              [] f = "tech_stack" -> c[5]
              [] f = "automation_opportunities" -> c[6]
              [] f = "digital_maturity_score" -> c[7]
              [] f = "Model_Confidence" -> c[8]
              [] f = "enrichment_sources" -> c[9]
              [] f = "last_updated" -> c[10]]) :
        c \in {Absent, PyNone, PyStr(StrTechCorp)}
              \X {Absent, PyStr(StrUrl)}
              \X {PyNone, PyStr(StrUnknown), PyStr(StrTechnology)}
              \X {Absent, PyStr(StrSize51)}
              \X {Absent, PyList(0), PyList(MaxTechStack)}
              \X {Absent, PyList(0), PyList(3)}
              \X {Absent, PyInt(65)}
              \X {Absent, PyInt(85)}
              \X {Absent, PyNone, PyList(0), PyList(MaxSources)}
              \X {PyNone, PyIso(0), PyIso(MaxAgeDays)}}

\* report = scorer.score_enriched_data(enriched_data)
ScoreReturns ==
    /\ score_status = "idle"
    /\ ~ScoreEnrichedDataRaises(enriched_data)
    /\ report' = ScoreEnrichedData(enriched_data)
    /\ score_status' = "returned"
    /\ UNCHANGED enriched_data

\* score_enriched_data raises: the caller gets no report
ScoreRaises ==
    /\ score_status = "idle"
    /\ ScoreEnrichedDataRaises(enriched_data)
    /\ score_status' = "raised"
    /\ UNCHANGED <<enriched_data, report>>

----------------------------------------------------------------------------
(* DataPoint: confidence from source reliability and freshness.            *)

\* DataSource: reliability weights, in hundredths
DataSource ==
    [s \in {"DIRECT_SCRAPING", "API_VERIFIED", "PUBLIC_RECORDS", "SOCIAL_MEDIA",
            "NEWS_ARTICLES", "INFERENCE", "ESTIMATION", "UNKNOWN"} |->
        CASE s = "DIRECT_SCRAPING" -> 95
          [] s = "API_VERIFIED" -> 90
          [] s = "PUBLIC_RECORDS" -> 85
          [] s = "SOCIAL_MEDIA" -> 70
          [] s = "NEWS_ARTICLES" -> 65
          [] s = "INFERENCE" -> 50
          [] s = "ESTIMATION" -> 30
          [] s = "UNKNOWN" -> 10]

\* DataFreshness: confidence multipliers, in hundredths
DataFreshness ==
    [f \in {"REAL_TIME", "VERY_FRESH", "FRESH", "RECENT", "DATED", "STALE",
            "VERY_STALE"} |->
        CASE f = "REAL_TIME" -> 100
          [] f = "VERY_FRESH" -> 95
          [] f = "FRESH" -> 85
          [] f = "RECENT" -> 70
          [] f = "DATED" -> 50
          [] f = "STALE" -> 30
          [] f = "VERY_STALE" -> 10]

\* timedelta(hours=h) and timedelta(days=d), in hours
Hours(h) == h
Days(d)  == 24 * d

\* a plausible slip: the multipliers of two neighbouring buckets exchanged
FreshnessOfAgeSwapped(age) ==
    IF age < Hours(1) THEN "REAL_TIME"
    ELSE IF age < Days(1) THEN "VERY_FRESH"
    ELSE IF age < Days(7) THEN "FRESH"
    ELSE IF age < Days(30) THEN "RECENT"
    ELSE IF age < Days(90) THEN "STALE"
    ELSE IF age < Days(365) THEN "DATED"
    ELSE "VERY_STALE"

\* the if/elif chain of calculate_confidence: the freshness level of an age
FreshnessOfAge(age) ==
    IF age < Hours(1) THEN "REAL_TIME"
    ELSE IF age < Days(1) THEN "VERY_FRESH"
    ELSE IF age < Days(7) THEN "FRESH"
    ELSE IF age < Days(30) THEN "RECENT"
    ELSE IF age < Days(90) THEN "DATED"
    ELSE IF age < Days(365) THEN "STALE"
    ELSE "VERY_STALE"

\* DataPoint.calculate_confidence at time t: the DataPoint after the call
CalculateConfidence(d, t) ==
    LET source_confidence == Pct(DataSource[d.source])
        age == t - d.collected_at
        freshness_multiplier == Pct(DataFreshness[FreshnessOfAge(age)])
    IN  [d EXCEPT !.confidence = RMul(source_confidence, freshness_multiplier),
                  !.calculated = TRUE,
                  !.age = age]

MaxClock == 8761
FutureSkew == 2

\* the hours at which the model reads the clock: each side of every bucket boundary
ClockTimes ==
    {t \in {0, 1, 2, 3, 23, 24, 25, 26, 167, 168, 169, 170, 719, 720, 721, 722,
            2159, 2160, 2161, 2162, 8759, 8760, 8761, 8762, MaxClock} : t <= MaxClock}

\* DataPoint(field_name, value, source, collected_at=...): confidence defaults to 0.0;
\* calculated and age record the last calculate_confidence call
NewDataPoint(source, collected_at) ==
    [source |-> source, collected_at |-> collected_at, confidence |-> RZero,
     calculated |-> FALSE, age |-> 0]

\* no calculate_confidence call yet
NoCall == [confidence |-> RZero, calculated |-> FALSE, age |-> 0]

\* dp.calculate_confidence()
CalculateConfidenceCall ==
    /\ dp' = CalculateConfidence(dp, clock)
    /\ dp_prev' = [confidence |-> dp.confidence, calculated |-> dp.calculated,
                   age |-> dp.age]
    /\ UNCHANGED clock

\* time passes
Tick ==
    /\ \E t \in ClockTimes : t > clock /\ clock' = t
    /\ UNCHANGED <<dp, dp_prev>>

----------------------------------------------------------------------------
(* audit_engine.py: the texts the agents search in.                        *)

\* the characters of a str the agents look inside
Text(str) ==
    CASE str = "Manual deployment processes" -> <<"M", "a", "n", "u", "a", "l", " ", "d", "e", "p", "l", "o", "y", "m", "e", "n", "t", " ", "p", "r", "o", "c", "e", "s", "s", "e", "s">>
      [] str = "Inconsistent testing" -> <<"I", "n", "c", "o", "n", "s", "i", "s", "t", "e", "n", "t", " ", "t", "e", "s", "t", "i", "n", "g">>
      [] str = "Poor documentation" -> <<"P", "o", "o", "r", " ", "d", "o", "c", "u", "m", "e", "n", "t", "a", "t", "i", "o", "n">>
      [] str = "Inefficient customer support" -> <<"I", "n", "e", "f", "f", "i", "c", "i", "e", "n", "t", " ", "c", "u", "s", "t", "o", "m", "e", "r", " ", "s", "u", "p", "p", "o", "r", "t">>
      [] str = "Manual data entry" -> <<"M", "a", "n", "u", "a", "l", " ", "d", "a", "t", "a", " ", "e", "n", "t", "r", "y">>
      [] str = "Cart abandonment" -> <<"C", "a", "r", "t", " ", "a", "b", "a", "n", "d", "o", "n", "m", "e", "n", "t">>
      [] str = "Inventory management" -> <<"I", "n", "v", "e", "n", "t", "o", "r", "y", " ", "m", "a", "n", "a", "g", "e", "m", "e", "n", "t">>
      [] str = "Customer service scale" -> <<"C", "u", "s", "t", "o", "m", "e", "r", " ", "s", "e", "r", "v", "i", "c", "e", " ", "s", "c", "a", "l", "e">>
      [] str = "Order fulfillment delays" -> <<"O", "r", "d", "e", "r", " ", "f", "u", "l", "f", "i", "l", "l", "m", "e", "n", "t", " ", "d", "e", "l", "a", "y", "s">>
      [] str = "Return processing" -> <<"R", "e", "t", "u", "r", "n", " ", "p", "r", "o", "c", "e", "s", "s", "i", "n", "g">>
      [] str = "Appointment scheduling" -> <<"A", "p", "p", "o", "i", "n", "t", "m", "e", "n", "t", " ", "s", "c", "h", "e", "d", "u", "l", "i", "n", "g">>
      [] str = "Patient communication" -> <<"P", "a", "t", "i", "e", "n", "t", " ", "c", "o", "m", "m", "u", "n", "i", "c", "a", "t", "i", "o", "n">>
      [] str = "Insurance verification" -> <<"I", "n", "s", "u", "r", "a", "n", "c", "e", " ", "v", "e", "r", "i", "f", "i", "c", "a", "t", "i", "o", "n">>
      [] str = "Record management" -> <<"R", "e", "c", "o", "r", "d", " ", "m", "a", "n", "a", "g", "e", "m", "e", "n", "t">>
      [] str = "Follow-up care" -> <<"F", "o", "l", "l", "o", "w", "-", "u", "p", " ", "c", "a", "r", "e">>
      [] str = "Proposal generation" -> <<"P", "r", "o", "p", "o", "s", "a", "l", " ", "g", "e", "n", "e", "r", "a", "t", "i", "o", "n">>
      [] str = "Time tracking" -> <<"T", "i", "m", "e", " ", "t", "r", "a", "c", "k", "i", "n", "g">>
      [] str = "Invoice processing" -> <<"I", "n", "v", "o", "i", "c", "e", " ", "p", "r", "o", "c", "e", "s", "s", "i", "n", "g">>
      [] str = "Client communication" -> <<"C", "l", "i", "e", "n", "t", " ", "c", "o", "m", "m", "u", "n", "i", "c", "a", "t", "i", "o", "n">>
      [] str = "Document management" -> <<"D", "o", "c", "u", "m", "e", "n", "t", " ", "m", "a", "n", "a", "g", "e", "m", "e", "n", "t">>
      [] str = "CRM-based sales" -> <<"C", "R", "M", "-", "b", "a", "s", "e", "d", " ", "s", "a", "l", "e", "s">>
      [] str = "Manual sales tracking" -> <<"M", "a", "n", "u", "a", "l", " ", "s", "a", "l", "e", "s", " ", "t", "r", "a", "c", "k", "i", "n", "g">>
      [] str = "Digital customer support" -> <<"D", "i", "g", "i", "t", "a", "l", " ", "c", "u", "s", "t", "o", "m", "e", "r", " ", "s", "u", "p", "p", "o", "r", "t">>
      [] str = "Email-only support" -> <<"E", "m", "a", "i", "l", "-", "o", "n", "l", "y", " ", "s", "u", "p", "p", "o", "r", "t">>
      [] str = "Online scheduling" -> <<"O", "n", "l", "i", "n", "e", " ", "s", "c", "h", "e", "d", "u", "l", "i", "n", "g">>
      [] str = "Manual scheduling" -> <<"M", "a", "n", "u", "a", "l", " ", "s", "c", "h", "e", "d", "u", "l", "i", "n", "g">>
      [] str = "low" -> <<"l", "o", "w">>
      [] str = "medium" -> <<"m", "e", "d", "i", "u", "m">>
      [] str = "medium-high" -> <<"m", "e", "d", "i", "u", "m", "-", "h", "i", "g", "h">>
      [] str = "high" -> <<"h", "i", "g", "h">>
      [] str = "HubSpot/Salesforce" -> <<"H", "u", "b", "S", "p", "o", "t", "/", "S", "a", "l", "e", "s", "f", "o", "r", "c", "e">>
      [] str = "Likely spreadsheets" -> <<"L", "i", "k", "e", "l", "y", " ", "s", "p", "r", "e", "a", "d", "s", "h", "e", "e", "t", "s">>
      [] str = "Chat/Ticketing system" -> <<"C", "h", "a", "t", "/", "T", "i", "c", "k", "e", "t", "i", "n", "g", " ", "s", "y", "s", "t", "e", "m">>
      [] str = "Basic email" -> <<"B", "a", "s", "i", "c", " ", "e", "m", "a", "i", "l">>
      [] str = "Booking system" -> <<"B", "o", "o", "k", "i", "n", "g", " ", "s", "y", "s", "t", "e", "m">>
      [] str = "Phone/Email" -> <<"P", "h", "o", "n", "e", "/", "E", "m", "a", "i", "l">>
      [] str = "CRM Implementation" -> <<"C", "R", "M", " ", "I", "m", "p", "l", "e", "m", "e", "n", "t", "a", "t", "i", "o", "n">>
      [] str = "Helpdesk System" -> <<"H", "e", "l", "p", "d", "e", "s", "k", " ", "S", "y", "s", "t", "e", "m">>
      [] str = "Booking Automation" -> <<"B", "o", "o", "k", "i", "n", "g", " ", "A", "u", "t", "o", "m", "a", "t", "i", "o", "n">>
      [] str = "Recovery Automation" -> <<"R", "e", "c", "o", "v", "e", "r", "y", " ", "A", "u", "t", "o", "m", "a", "t", "i", "o", "n">>
      [] str = "RPA/Integration" -> <<"R", "P", "A", "/", "I", "n", "t", "e", "g", "r", "a", "t", "i", "o", "n">>
      [] str = "Process Automation" -> <<"P", "r", "o", "c", "e", "s", "s", " ", "A", "u", "t", "o", "m", "a", "t", "i", "o", "n">>
      [] str = "Process Automation for " -> <<"P", "r", "o", "c", "e", "s", "s", " ", "A", "u", "t", "o", "m", "a", "t", "i", "o", "n", " ", "f", "o", "r", " ">>
      [] str = "1-10 employees" -> <<"1", "-", "1", "0", " ", "e", "m", "p", "l", "o", "y", "e", "e", "s">>
      [] str = "11-50 employees" -> <<"1", "1", "-", "5", "0", " ", "e", "m", "p", "l", "o", "y", "e", "e", "s">>
      [] str = "51-200 employees" -> <<"5", "1", "-", "2", "0", "0", " ", "e", "m", "p", "l", "o", "y", "e", "e", "s">>
      [] str = "201-1000 employees" -> <<"2", "0", "1", "-", "1", "0", "0", "0", " ", "e", "m", "p", "l", "o", "y", "e", "e", "s">>
      [] str = "1000+ employees" -> <<"1", "0", "0", "0", "+", " ", "e", "m", "p", "l", "o", "y", "e", "e", "s">>
      [] str = "Unknown" -> <<"U", "n", "k", "n", "o", "w", "n">>
      [] str = "CRM" -> <<"C", "R", "M">>
      [] str = "Marketing" -> <<"M", "a", "r", "k", "e", "t", "i", "n", "g">>
      [] str = "1-10" -> <<"1", "-", "1", "0">>
      [] str = "MANUAL DATA ENTRY" -> <<"M", "A", "N", "U", "A", "L", " ", "D", "A", "T", "A", " ", "E", "N", "T", "R", "Y">>
      [] str = "Manual data entry, MANUAL SALES TRACKING" -> <<"M", "a", "n", "u", "a", "l", " ", "d", "a", "t", "a", " ", "e", "n", "t", "r", "y", ",", " ", "M", "A", "N", "U", "A", "L", " ", "S", "A", "L", "E", "S", " ", "T", "R", "A", "C", "K", "I", "N", "G">>

\* str(p) of a detected process p, a dict with the keys process, maturity, tool
ProcessRepr(p) ==
    <<"{", "'", "p", "r", "o", "c", "e", "s", "s", "'", ":", " ", "'">> \o Text(p.process)
        \o <<"'", ",", " ", "'", "m", "a", "t", "u", "r", "i", "t", "y", "'", ":", " ", "'">> \o Text(p.maturity)
        \o <<"'", ",", " ", "'", "t", "o", "o", "l", "'", ":", " ", "'">> \o Text(p.tool)
        \o <<"'", "}">>

\* dict.get(key, default) on a record
Get(d, key, default) == IF key \in DOMAIN d THEN d[key] ELSE default

\* a plausible slip: the best score taken instead of the mean
CalculateAgentConfidenceBest(data_quality) ==
    IF Get(data_quality, "has_direct_evidence", FALSE) THEN Pct(90)
    ELSE IF Get(data_quality, "multiple_sources", FALSE) THEN Pct(80)
    ELSE IF Get(data_quality, "recent_data", FALSE) THEN Pct(70)
    ELSE IF Get(data_quality, "industry_pattern", FALSE) THEN Pct(60)
    ELSE Pct(40)

\* BaseAgent._calculate_confidence; a key that data_quality lacks counts as False
CalculateAgentConfidence(data_quality) ==
    LET scores ==
            (IF Get(data_quality, "has_direct_evidence", FALSE) THEN <<Pct(90)>> ELSE <<>>)
         \o (IF Get(data_quality, "multiple_sources", FALSE) THEN <<Pct(80)>> ELSE <<>>)
         \o (IF Get(data_quality, "recent_data", FALSE) THEN <<Pct(70)>> ELSE <<>>)
         \o (IF Get(data_quality, "industry_pattern", FALSE) THEN <<Pct(60)>> ELSE <<>>)
    IN  IF scores = <<>> THEN Pct(40) ELSE RDiv(RSum(scores), <<Len(scores), 1>>)

\* AgentOutput; reasoning, sources and timestamp are fixed texts and the clock, and
\* no stage reads them
AgentOutput(agent_name, output, confidence) ==
    [agent_name |-> agent_name, output |-> output, confidence |-> confidence]

\* {} : a dict with no key
EmptyDict == <<>>

----------------------------------------------------------------------------
(* IndustryBaselineAgent                                                   *)

\* _load_industry_data; automation_maturity in hundredths
IndustryData ==
    [i \in {"Technology", "E-commerce", "Healthcare", "Professional Services"} |->
        CASE i = "Technology" ->
                [common_pain_points |-> <<"Manual deployment processes",
                    "Inconsistent testing", "Poor documentation",
                    "Inefficient customer support", "Manual data entry">>,
                 typical_tech_stack |-> <<"AWS", "GitHub", "Slack", "Jira">>,
                 automation_maturity |-> 70,
                 avg_employee_productivity |-> 150000]
          [] i = "E-commerce" ->
                [common_pain_points |-> <<"Cart abandonment", "Inventory management",
                    "Customer service scale", "Order fulfillment delays",
                    "Return processing">>,
                 typical_tech_stack |-> <<"Shopify", "Stripe", "Mailchimp">>,
                 automation_maturity |-> 60,
                 avg_employee_productivity |-> 120000]
          [] i = "Healthcare" ->
                [common_pain_points |-> <<"Appointment scheduling",
                    "Patient communication", "Insurance verification",
                    "Record management", "Follow-up care">>,
                 typical_tech_stack |-> <<"Epic", "Salesforce Health">>,
                 automation_maturity |-> 40,
                 avg_employee_productivity |-> 100000]
          [] i = "Professional Services" ->
                [common_pain_points |-> <<"Proposal generation", "Time tracking",
                    "Invoice processing", "Client communication",
                    "Document management">>,
                 typical_tech_stack |-> <<"Office 365", "QuickBooks", "Salesforce">>,
                 automation_maturity |-> 50,
                 avg_employee_productivity |-> 180000]]

\* size_multipliers of _calculate_baseline, in hundredths
SizeMultipliers ==
    [s \in {"1-10 employees", "11-50 employees", "51-200 employees",
            "201-1000 employees", "1000+ employees", "Unknown"} |->
        CASE s = "1-10 employees" -> 30
          [] s = "11-50 employees" -> 50
          [] s = "51-200 employees" -> 70
          [] s = "201-1000 employees" -> 90
          [] s = "1000+ employees" -> 100
          [] s = "Unknown" -> 50]

\* a plausible slip: the expected level taken from the industry's own maturity
CalculateBaselineFromMaturity(industry, company_size) ==
    LET multiplier == IF company_size \in DOMAIN SizeMultipliers
                      THEN Pct(SizeMultipliers[company_size]) ELSE Pct(50)
        maturity == IF industry \in DOMAIN IndustryData
                    THEN Pct(IndustryData[industry].automation_maturity) ELSE Pct(70)
    IN  [expected_automation_level |-> RMul(multiplier, maturity),
         potential_annual_savings  |-> RMul(<<50000, 1>>, multiplier),
         implementation_complexity |-> IF RLt(Pct(70), multiplier) THEN "high" ELSE "medium"]

\* IndustryBaselineAgent._calculate_baseline
CalculateBaseline(industry, company_size) ==
    LET multiplier == IF company_size \in DOMAIN SizeMultipliers
                      THEN Pct(SizeMultipliers[company_size]) ELSE Pct(50)
        base_savings == 50000
    IN  [expected_automation_level |-> RMul(multiplier, Pct(70)),
         potential_annual_savings  |-> RMul(<<base_savings, 1>>, multiplier),
         implementation_complexity |-> IF RLt(Pct(70), multiplier) THEN "high" ELSE "medium"]

\* IndustryBaselineAgent.analyze
IndustryBaselineAnalyze(input_data) ==
    LET industry == Get(input_data, "industry", "Technology")
        company_size == Get(input_data, "company_size", "Unknown")
        industry_info == IF industry \in DOMAIN IndustryData THEN IndustryData[industry]
                         ELSE IndustryData["Technology"]
    IN  AgentOutput("IndustryBaselineAgent",
            [industry_benchmarks |->
                [automation_maturity |-> Pct(industry_info.automation_maturity),
                 avg_productivity |-> industry_info.avg_employee_productivity],
             common_pain_points |-> industry_info.common_pain_points,
             typical_tech_stack |-> industry_info.typical_tech_stack,
             automation_baseline |-> CalculateBaseline(industry, company_size)],
            CalculateAgentConfidence(
                [industry_pattern |-> TRUE,
                 has_direct_evidence |-> industry \in DOMAIN IndustryData]))

----------------------------------------------------------------------------
(* CurrentStateAnalyzer; tech_stack is list(set(...)): a set of names      *)

\* _detect_growth_signals
DetectGrowthSignals(website_data) ==
       (IF "careers" \in DOMAIN Get(website_data, "key_pages", EmptyDict)
        THEN <<"Active hiring - scaling challenges likely">> ELSE <<>>)
    \o (IF "company_size" \in DOMAIN website_data
           /\ website_data["company_size"] = "11-50 employees"
        THEN <<"Growth stage - process standardization needed">> ELSE <<>>)
    \o (IF Cardinality(Get(website_data, "tech_stack", {})) > 5
        THEN <<"Complex tech stack - integration opportunities">> ELSE <<>>)

\* maturity_scores.get(maturity, 0.5)
MaturityScore(maturity) ==
    CASE maturity = "low" -> Pct(30)
      [] maturity = "medium" -> Pct(60)
      [] maturity = "medium-high" -> Pct(75)
      [] maturity = "high" -> Pct(90)
      [] OTHER -> Pct(50)

\* CurrentStateAnalyzer.analyze
CurrentStateAnalyze(input_data) ==
    LET website_data == Get(input_data, "website_data", EmptyDict)
        tech_stack == Get(website_data, "tech_stack", {})
        has_booking == Get(website_data, "has_booking", FALSE)
        has_chat == Get(website_data, "has_chat", FALSE)
        sales ==
            IF "hubspot" \in tech_stack \/ "salesforce" \in tech_stack
            THEN [process |-> "CRM-based sales", maturity |-> "medium",
                  tool |-> "HubSpot/Salesforce"]
            ELSE [process |-> "Manual sales tracking", maturity |-> "low",
                  tool |-> "Likely spreadsheets"]
        support ==
            IF has_chat \/ "intercom" \in tech_stack \/ "zendesk" \in tech_stack
            THEN [process |-> "Digital customer support", maturity |-> "medium-high",
                  tool |-> "Chat/Ticketing system"]
            ELSE [process |-> "Email-only support", maturity |-> "low",
                  tool |-> "Basic email"]
        scheduling ==
            IF has_booking
            THEN [process |-> "Online scheduling", maturity |-> "high",
                  tool |-> "Booking system"]
            ELSE [process |-> "Manual scheduling", maturity |-> "low",
                  tool |-> "Phone/Email"]
        detected_processes == <<sales, support, scheduling>>
        avg_maturity ==
            IF detected_processes # <<>>
            THEN RDiv(RSum([i \in DOMAIN detected_processes |->
                                MaturityScore(detected_processes[i].maturity)]),
                      <<Len(detected_processes), 1>>)
            ELSE Pct(30)
    IN  AgentOutput("CurrentStateAnalyzer",
            [detected_processes |-> detected_processes,
             tool_usage |-> tech_stack,
             operational_maturity |-> avg_maturity,
             growth_signals |-> DetectGrowthSignals(website_data)],
            CalculateAgentConfidence(
                [has_direct_evidence |-> tech_stack # {}, recent_data |-> TRUE]))

----------------------------------------------------------------------------
(* InefficiencyDetector                                                    *)

\* _calculate_automation_potential
CalculateAutomationPotential(process) ==
    IF process.maturity = "low" THEN "high"
    ELSE IF process.maturity = "medium" THEN "medium"
    ELSE "low"

\* a plausible slip: every gap of a detected process tagged 'high'
ProcessGapsAllHigh(detected_processes) ==
    LET kept == SelectSeq(detected_processes, LAMBDA p : p.maturity \in {"low", "medium"})
    IN  [i \in 1..Len(kept) |->
            [process |-> kept[i].process, current_maturity |-> kept[i].maturity,
             gap_severity |-> "high",
             automation_potential |-> CalculateAutomationPotential(kept[i])]]

\* the gaps of the detected processes, in order
RECURSIVE ProcessGaps(_)
ProcessGaps(detected_processes) ==
    IF detected_processes = <<>> THEN <<>>
    ELSE LET process == Head(detected_processes)
         IN  (IF process.maturity \in {"low", "medium"}
              THEN <<[process |-> process.process,
                      current_maturity |-> process.maturity,
                      gap_severity |-> IF process.maturity = "low" THEN "high" ELSE "medium",
                      automation_potential |-> CalculateAutomationPotential(process)]>>
              ELSE <<>>) \o ProcessGaps(Tail(detected_processes))

\* the gaps of the industry's pain points that no detected process mentions, in order
RECURSIVE MissingGaps(_, _)
MissingGaps(common_pain_points, detected_processes) ==
    IF common_pain_points = <<>> THEN <<>>
    ELSE LET pain_point == Head(common_pain_points)
             mentioned == \E i \in DOMAIN detected_processes :
                             StrContains(StrLower(Text(pain_point)),
                                         StrLower(ProcessRepr(detected_processes[i])))
         IN  (IF ~mentioned
              THEN <<[process |-> pain_point, current_maturity |-> "missing",
                      gap_severity |-> "high", automation_potential |-> "high"]>>
              ELSE <<>>) \o MissingGaps(Tail(common_pain_points), detected_processes)

\* _find_integration_opportunities; str(current_state) holds the word spreadsheets
\* only inside a detected process
FindIntegrationOpportunities(current_state) ==
    LET tech_stack == Get(current_state, "tool_usage", {})
        processes == Get(current_state, "detected_processes", <<>>)
    IN     (IF Cardinality(tech_stack) > 3
            THEN <<"System integration to reduce tool fragmentation">> ELSE <<>>)
        \o (IF \E i \in DOMAIN processes :
                    StrContains(<<"s", "p", "r", "e", "a", "d", "s", "h", "e", "e", "t", "s">>,
                                StrLower(ProcessRepr(processes[i])))
            THEN <<"Database migration from spreadsheets">> ELSE <<>>)

\* InefficiencyDetector.analyze
InefficiencyAnalyze(input_data) ==
    LET current_state == Get(input_data, "current_state", EmptyDict)
        industry_baseline == Get(input_data, "industry_baseline", EmptyDict)
        detected_processes == Get(current_state, "detected_processes", <<>>)
        operational_maturity == Get(current_state, "operational_maturity", Pct(30))
        expected_maturity ==
            Get(Get(industry_baseline, "automation_baseline", EmptyDict),
                "expected_automation_level", Pct(50))
        automation_gaps ==
            ProcessGaps(detected_processes)
            \o MissingGaps(Get(industry_baseline, "common_pain_points", <<>>),
                           detected_processes)
        bottlenecks ==
            IF RLt(operational_maturity, expected_maturity)
            THEN <<[area |-> "Overall automation", current |-> operational_maturity,
                    expected |-> expected_maturity, impact |-> "high"]>>
            ELSE <<>>
    IN  AgentOutput("InefficiencyDetector",
            [manual_processes |-> SelectSeq(automation_gaps,
                                            LAMBDA g : g.gap_severity = "high"),
             automation_gaps |-> automation_gaps,
             efficiency_bottlenecks |-> bottlenecks,
             integration_opportunities |-> FindIntegrationOpportunities(current_state)],
            CalculateAgentConfidence(
                [has_direct_evidence |-> detected_processes # <<>>,
                 industry_pattern |-> TRUE]))

----------------------------------------------------------------------------
(* SolutionArchitect                                                       *)

\* _load_solution_catalog, in the dict's insertion order
SolutionCatalog ==
    <<[problem |-> "Manual sales tracking", solution |-> "CRM Implementation",
       tools |-> <<"HubSpot", "Salesforce", "Pipedrive">>, effort |-> "medium",
       time |-> "4-8 weeks", cost_range |-> [min |-> 5000, max |-> 50000]],
      [problem |-> "Email-only support", solution |-> "Helpdesk System",
       tools |-> <<"Zendesk", "Freshdesk", "Intercom">>, effort |-> "low",
       time |-> "2-4 weeks", cost_range |-> [min |-> 2000, max |-> 10000]],
      [problem |-> "Manual scheduling", solution |-> "Booking Automation",
       tools |-> <<"Calendly", "Cal.com", "Acuity">>, effort |-> "low",
       time |-> "1 week", cost_range |-> [min |-> 500, max |-> 2000]],
      [problem |-> "Cart abandonment", solution |-> "Recovery Automation",
       tools |-> <<"Klaviyo", "Mailchimp", "ActiveCampaign">>, effort |-> "medium",
       time |-> "2-3 weeks", cost_range |-> [min |-> 1000, max |-> 5000]],
      [problem |-> "Manual data entry", solution |-> "RPA/Integration",
       tools |-> <<"Zapier", "Make", "UiPath">>, effort |-> "medium",
       time |-> "3-6 weeks", cost_range |-> [min |-> 3000, max |-> 20000]]>>

\* the solution chosen for a process: the first catalog entry whose problem is in
\* it, else the generic one; a solution's name is kept as its characters
SolutionFor(process) ==
    LET matches == {i \in DOMAIN SolutionCatalog :
                        StrContains(StrLower(Text(SolutionCatalog[i].problem)),
                                    StrLower(Text(process)))}
    IN  IF matches # {}
        THEN LET sol == SolutionCatalog[CHOOSE i \in matches : \A j \in matches : i <= j]
             IN  [solution |-> Text(sol.solution), tools |-> sol.tools,
                  effort |-> sol.effort, time |-> sol.time, cost_range |-> sol.cost_range]
        ELSE [solution |-> Text("Process Automation for ") \o Text(process),
              tools |-> <<"Custom solution">>, effort |-> "high",
              time |-> "8-12 weeks", cost_range |-> [min |-> 10000, max |-> 100000]]

\* the automation recorded for a gap
AutomationFor(gap) ==
    LET process == Get(gap, "process", "")
        solution == SolutionFor(process)
    IN  [gap |-> process,
         solution |-> solution.solution,
         recommended_tools |-> solution.tools,
         implementation_effort |-> solution.effort,
         time_to_implement |-> solution.time,
         cost_estimate |-> solution.cost_range]

\* a plausible slip: the quick wins not moved forward
SequenceEntryForNoQuickWin(gap) ==
    LET solution == SolutionFor(Get(gap, "process", ""))
    IN  [automation |-> solution.solution,
         priority |-> IF Get(gap, "gap_severity", "") = "high" THEN <<1, 1>> ELSE <<2, 1>>,
         dependencies |-> <<>>]

\* the implementation_sequence entry of a gap
SequenceEntryFor(gap) ==
    LET solution == SolutionFor(Get(gap, "process", ""))
        base == IF Get(gap, "gap_severity", "") = "high" THEN <<1, 1>> ELSE <<2, 1>>
        priority == IF solution.effort = "low" THEN RAdd(base, <<-1, 2>>) ELSE base
    IN  [automation |-> solution.solution, priority |-> priority, dependencies |-> <<>>]

\* a plausible slip: a sort that puts an entry in front of its equals
RECURSIVE InsertBeforeEqual(_, _)
InsertBeforeEqual(sorted, x) ==
    IF sorted = <<>> THEN <<x>>
    ELSE IF RLe(x.priority, Head(sorted).priority) THEN <<x>> \o sorted
         ELSE <<Head(sorted)>> \o InsertBeforeEqual(Tail(sorted), x)

RECURSIVE SortByPriorityUnstable(_)
SortByPriorityUnstable(seq) ==
    IF seq = <<>> THEN <<>>
    ELSE InsertBeforeEqual(SortByPriorityUnstable(SubSeq(seq, 1, Len(seq) - 1)),
                           seq[Len(seq)])

\* x put into a sequence sorted by priority, after every entry that is not greater
RECURSIVE InsertByPriority(_, _)
InsertByPriority(sorted, x) ==
    IF sorted = <<>> THEN <<x>>
    ELSE IF RLt(x.priority, Head(sorted).priority) THEN <<x>> \o sorted
         ELSE <<Head(sorted)>> \o InsertByPriority(Tail(sorted), x)

\* list.sort(key=lambda x: x['priority']): a stable sort
RECURSIVE SortByPriority(_)
SortByPriority(seq) ==
    IF seq = <<>> THEN <<>>
    ELSE InsertByPriority(SortByPriority(SubSeq(seq, 1, Len(seq) - 1)), seq[Len(seq)])

\* _create_dependency_map, as the set of solutions that depend on the CRM
CreateDependencyMap(automations) ==
    IF \E i \in DOMAIN automations : StrContains(Text("CRM"), automations[i].solution)
    THEN {automations[i].solution : i \in {j \in DOMAIN automations :
                StrContains(Text("Marketing"), automations[j].solution)}}
    ELSE {}

\* _identify_risks
IdentifyRisks(company_context) ==
       (IF StrContains(Text("1-10"), Text(Get(company_context, "company_size", "Unknown")))
        THEN <<"Limited resources for implementation">> ELSE <<>>)
    \o (IF RLt(Get(company_context, "operational_maturity", Pct(50)), Pct(30))
        THEN <<"Low digital maturity may require additional training">> ELSE <<>>)

\* SolutionArchitect.analyze
SolutionArchitectAnalyze(input_data) ==
    LET automation_gaps == Get(input_data, "automation_gaps", <<>>)
        company_context == Get(input_data, "company_context", EmptyDict)
        recommended_automations ==
            [i \in DOMAIN automation_gaps |-> AutomationFor(automation_gaps[i])]
        implementation_sequence ==
            SortByPriority([i \in DOMAIN automation_gaps |->
                                SequenceEntryFor(automation_gaps[i])])
    IN  AgentOutput("SolutionArchitect",
            [recommended_automations |-> recommended_automations,
             implementation_sequence |-> implementation_sequence,
             dependency_map |-> CreateDependencyMap(recommended_automations),
             risk_factors |-> IdentifyRisks(company_context)],
            CalculateAgentConfidence(
                [has_direct_evidence |-> automation_gaps # <<>>,
                 industry_pattern |-> TRUE]))

----------------------------------------------------------------------------
(* ROICalculator; five_year_npv is left out: no stage reads it             *)

\* employee_estimates.get(company_size, 20)
EstimatedEmployees(company_size) ==
    CASE company_size = "1-10 employees" -> 5
      [] company_size = "11-50 employees" -> 30
      [] company_size = "51-200 employees" -> 125
      [] company_size = "201-1000 employees" -> 500
      [] company_size = "1000+ employees" -> 2000
      [] OTHER -> 20

\* _estimate_time_savings
EstimateTimeSavings(automation, employees) ==
    LET solution == automation.solution
        base == CASE solution = Text("CRM Implementation") -> 10
                  [] solution = Text("Helpdesk System") -> 15
                  [] solution = Text("Booking Automation") -> 5
                  [] solution = Text("Recovery Automation") -> 8
                  [] solution = Text("RPA/Integration") -> 20
                  [] solution = Text("Process Automation") -> 10
                  [] OTHER -> 10
        multiplier == IF employees < 10 THEN <<1, 2>>
                      ELSE IF employees < 50 THEN <<1, 1>>
                      ELSE IF employees < 200 THEN <<2, 1>>
                      ELSE <<5, 1>>
    IN  RMul(<<base, 1>>, multiplier)

\* int(x) of a float x >= 0
PyInt0(x) == x[1] \div x[2]

\* ROICalculator.analyze
ROICalculatorAnalyze(input_data) ==
    LET recommended_automations == Get(input_data, "recommended_automations", <<>>)
        company_size == Get(input_data, "company_size", "Unknown")
        estimated_employees == EstimatedEmployees(company_size)
        avg_salary == 60000
        hourly_rate == Rat(avg_salary, 2080)
        savings_breakdown ==
            [i \in DOMAIN recommended_automations |->
                LET automation == recommended_automations[i]
                    hours == EstimateTimeSavings(automation, estimated_employees)
                    cost_range == Get(automation, "cost_estimate",
                                      [min |-> 5000, max |-> 20000])
                IN  [automation |-> automation.solution,
                     hours_saved_per_week |-> hours,
                     annual_cost_savings |-> RMul(RMul(hours, <<52, 1>>), hourly_rate),
                     implementation_cost |-> Rat(cost_range.min + cost_range.max, 2)]]
        total_time_savings ==
            RSum([i \in DOMAIN savings_breakdown |->
                    RMul(savings_breakdown[i].hours_saved_per_week, <<52, 1>>)])
        total_cost_savings ==
            RSum([i \in DOMAIN savings_breakdown |-> savings_breakdown[i].annual_cost_savings])
        total_investment ==
            RSum([i \in DOMAIN savings_breakdown |-> savings_breakdown[i].implementation_cost])
        payback_period ==
            IF RLt(RZero, total_cost_savings)
            THEN RMul(RDiv(total_investment, total_cost_savings), <<12, 1>>)
            ELSE <<999, 1>>
        year_one_roi ==
            IF RLt(RZero, total_investment)
            THEN RMul(RDiv(RAdd(total_cost_savings, RMul(<<-1, 1>>, total_investment)),
                           total_investment), <<100, 1>>)
            ELSE RZero
    IN  AgentOutput("ROICalculator",
            [time_savings_range |-> [min |-> RMul(total_time_savings, Pct(70)),
                                     max |-> RMul(total_time_savings, Pct(130))],
             cost_savings_range |-> [min |-> RMul(total_cost_savings, Pct(70)),
                                     max |-> RMul(total_cost_savings, Pct(130))],
             payback_period |-> [min |-> PyInt0(RMul(payback_period, Pct(70))),
                                 max |-> PyInt0(RMul(payback_period, Pct(130)))],
             year_one_roi |-> year_one_roi,
             savings_breakdown |-> savings_breakdown],
            CalculateAgentConfidence(
                [industry_pattern |-> TRUE, has_direct_evidence |-> FALSE]))

----------------------------------------------------------------------------
(* ReportCompiler; the headline and the key findings are kept as the numbers *)
(* their texts are formatted from                                            *)

\* next((o for o in all_outputs if o.agent_name == name), None), as a sequence of
\* at most one output
FirstNamed(all_outputs, name) ==
    LET at == {i \in DOMAIN all_outputs : all_outputs[i].agent_name = name}
    IN  IF at = {} THEN <<>> ELSE <<all_outputs[CHOOSE i \in at : \A j \in at : i <= j]>>

\* a plausible slip: the boundary priority 1.5 counted as a quick win
RoadmapPhasesInclusive(sequence) ==
    LET quick_wins == SelectSeq(sequence, LAMBDA s : RLe(s.priority, <<3, 2>>))
        medium_term == SelectSeq(sequence, LAMBDA s :
                            RLt(<<3, 2>>, s.priority) /\ RLt(s.priority, <<5, 2>>))
        long_term == SelectSeq(sequence, LAMBDA s : RLe(<<5, 2>>, s.priority))
    IN     (IF quick_wins # <<>>
            THEN <<[phase |-> 1, title |-> "Quick Wins (Month 1-2)",
                    initiatives |-> [i \in DOMAIN quick_wins |-> quick_wins[i].automation]]>>
            ELSE <<>>)
        \o (IF medium_term # <<>>
            THEN <<[phase |-> 2, title |-> "Core Automation (Month 3-6)",
                    initiatives |-> [i \in DOMAIN medium_term |-> medium_term[i].automation]]>>
            ELSE <<>>)
        \o (IF long_term # <<>>
            THEN <<[phase |-> 3, title |-> "Advanced Integration (Month 7-12)",
                    initiatives |-> [i \in DOMAIN long_term |-> long_term[i].automation]]>>
            ELSE <<>>)

\* the phases of the implementation roadmap
RoadmapPhases(sequence) ==
    LET quick_wins == SelectSeq(sequence, LAMBDA s : RLt(s.priority, <<3, 2>>))
        medium_term == SelectSeq(sequence, LAMBDA s :
                            RLe(<<3, 2>>, s.priority) /\ RLt(s.priority, <<5, 2>>))
        long_term == SelectSeq(sequence, LAMBDA s : RLe(<<5, 2>>, s.priority))
    IN     (IF quick_wins # <<>>
            THEN <<[phase |-> 1, title |-> "Quick Wins (Month 1-2)",
                    initiatives |-> [i \in DOMAIN quick_wins |-> quick_wins[i].automation]]>>
            ELSE <<>>)
        \o (IF medium_term # <<>>
            THEN <<[phase |-> 2, title |-> "Core Automation (Month 3-6)",
                    initiatives |-> [i \in DOMAIN medium_term |-> medium_term[i].automation]]>>
            ELSE <<>>)
        \o (IF long_term # <<>>
            THEN <<[phase |-> 3, title |-> "Advanced Integration (Month 7-12)",
                    initiatives |-> [i \in DOMAIN long_term |-> long_term[i].automation]]>>
            ELSE <<>>)

\* _compile_detailed_findings with _extract_key_insights
CompileDetailedFindings(outputs) ==
    [i \in DOMAIN outputs |->
        [agent_name |-> outputs[i].agent_name,
         confidence |-> outputs[i].confidence,
         key_insights |->
               (IF "automation_gaps" \in DOMAIN outputs[i].output
                THEN <<[found_gaps |-> Len(outputs[i].output.automation_gaps)]>> ELSE <<>>)
            \o (IF "operational_maturity" \in DOMAIN outputs[i].output
                THEN <<[maturity |-> outputs[i].output.operational_maturity]>> ELSE <<>>)
            \o (IF "recommended_automations" \in DOMAIN outputs[i].output
                THEN <<[recommended |-> Len(outputs[i].output.recommended_automations)]>>
                ELSE <<>>)]]

\* ReportCompiler.analyze
ReportCompilerAnalyze(input_data) ==
    LET all_outputs == Get(input_data, "agent_outputs", <<>>)
        company_data_ == Get(input_data, "company_data", EmptyDict)
        current_state == FirstNamed(all_outputs, "CurrentStateAnalyzer")
        inefficiencies == FirstNamed(all_outputs, "InefficiencyDetector")
        solutions == FirstNamed(all_outputs, "SolutionArchitect")
        roi == FirstNamed(all_outputs, "ROICalculator")
        total_savings == IF roi # <<>> THEN roi[1].output.cost_savings_range
                         ELSE [min |-> <<50000, 1>>, max |-> <<200000, 1>>]
        key_findings ==
               (IF current_state # <<>>
                THEN <<[maturity_percent |->
                         PyInt0(RMul(Get(current_state[1].output, "operational_maturity",
                                         Pct(30)), <<100, 1>>))]>>
                ELSE <<>>)
            \o (IF inefficiencies # <<>>
                THEN <<[gaps |-> Len(Get(inefficiencies[1].output, "automation_gaps", <<>>))]>>
                ELSE <<>>)
            \o (IF roi # <<>>
                THEN <<[payback |-> Get(roi[1].output, "payback_period",
                                        [min |-> 6, max |-> 12])]>>
                ELSE <<>>)
        roadmap_phases ==
            IF solutions # <<>>
            THEN RoadmapPhases(Get(solutions[1].output, "implementation_sequence", <<>>))
            ELSE <<>>
        confidences == [i \in DOMAIN all_outputs |-> all_outputs[i].confidence]
        overall_confidence == IF confidences # <<>>
                              THEN RDiv(RSum(confidences), <<Len(confidences), 1>>)
                              ELSE Pct(50)
    IN  AgentOutput("ReportCompiler",
            [executive_summary |->
                [headline |->
                    [company |-> Get(company_data_, "company_name", "your company"),
                     thousands |-> PyInt0(RDiv(total_savings.max, <<1000, 1>>))],
                 key_findings |-> key_findings,
                 total_savings_range |-> total_savings,
                 implementation_timeline |-> "6-12 months",
                 investment_required |-> [min |-> 20000, max |-> 100000]],
             detailed_findings |-> CompileDetailedFindings(all_outputs),
             implementation_roadmap |-> roadmap_phases],
            overall_confidence)

----------------------------------------------------------------------------
(* AutomationAuditEngine                                                   *)

\* a plausible slip: two agents listed in the wrong order
AgentsSwapped ==
    <<"IndustryBaselineAgent", "CurrentStateAnalyzer", "SolutionArchitect",
      "InefficiencyDetector", "ROICalculator", "ReportCompiler">>

\* self.agents, as built by __init__
Agents ==
    <<"IndustryBaselineAgent", "CurrentStateAnalyzer", "InefficiencyDetector",
      "SolutionArchitect", "ROICalculator", "ReportCompiler">>

\* agent.analyze(input_data), by the agent's class
Analyze(agent, input_data) ==
    CASE agent = "IndustryBaselineAgent" -> IndustryBaselineAnalyze(input_data)
      [] agent = "CurrentStateAnalyzer" -> CurrentStateAnalyze(input_data)
      [] agent = "InefficiencyDetector" -> InefficiencyAnalyze(input_data)
      [] agent = "SolutionArchitect" -> SolutionArchitectAnalyze(input_data)
      [] agent = "ROICalculator" -> ROICalculatorAnalyze(input_data)
      [] agent = "ReportCompiler" -> ReportCompilerAnalyze(input_data)

\* context['agent_outputs'] = agent_outputs stores the list itself, not a copy:
\* the context holds a reference to it
ListRef == "the list agent_outputs"

\* the context an agent reads: the reference gives the list as it is now
Resolve(ctx, outputs) ==
    [key \in DOMAIN ctx |-> IF key = "agent_outputs" THEN outputs ELSE ctx[key]]

\* the context generate_audit starts from
InitialContext(data) ==
    [company_data |-> data,
     website_data |-> data,
     industry |-> Get(data, "industry", "Technology"),
     company_size |-> Get(data, "company_size", "Unknown"),
     company_name |-> Get(data, "company_name", "Unknown Company")]

\* the statements of generate_audit between stage i - 1 and the call of stage i
BeforeCall(i, ctx) ==
    IF i = 6 THEN [agent_outputs |-> ListRef] @@ ctx ELSE ctx

\* the context after stage i returned out
AfterReturn(i, ctx, out) ==
    CASE i = 1 -> [industry_baseline |-> out.output, industry_data |-> out.output] @@ ctx
      [] i = 2 -> [current_state |-> out.output, company_context |-> out.output] @@ ctx
      [] i = 3 -> [automation_gaps |-> Get(out.output, "automation_gaps", <<>>)] @@ ctx
      [] i = 4 -> [recommended_automations |->
                        Get(out.output, "recommended_automations", <<>>)] @@ ctx
      [] i = 5 -> [roi_data |-> out.output] @@ ctx
      [] i = 6 -> ctx

\* a plausible slip: the new output put in front of the list
RecordOutputInFront(outputs, out) == <<out>> \o outputs

\* agent_outputs.append(out)
RecordOutput(outputs, out) == Append(outputs, out)

\* _create_final_report; generation_date, five_year_npv and the fixed texts are
\* left out
CreateFinalReport(data, outputs, report_output) ==
    LET summary == Get(report_output.output, "executive_summary", EmptyDict)
        roi == FirstNamed(outputs, "ROICalculator")
        roi_data == IF roi = <<>> THEN EmptyDict ELSE roi[1].output
        sol == FirstNamed(outputs, "SolutionArchitect")
        solutions_data == IF sol = <<>> THEN EmptyDict ELSE sol[1].output
        automations == Get(solutions_data, "recommended_automations", <<>>)
        breakdown == Get(roi_data, "savings_breakdown", <<>>)
        opportunities ==
            [idx \in DOMAIN automations |->
                LET automation == automations[idx]
                    savings == IF idx <= Len(breakdown) THEN breakdown[idx] ELSE EmptyDict
                IN  [title |-> automation.solution,
                     current_state |-> automation.gap,
                     proposed_tool |-> automation.recommended_tools[1],
                     estimated_savings |->
                        [hours_per_week |-> Get(savings, "hours_saved_per_week", <<10, 1>>),
                         annual_cost |-> Get(savings, "annual_cost_savings", <<50000, 1>>)],
                     implementation_effort |-> automation.implementation_effort,
                     time_to_implement |-> automation.time_to_implement,
                     confidence |-> Pct(70),
                     priority |-> idx]]
        cur == FirstNamed(outputs, "CurrentStateAnalyzer")
        current_state == IF cur = <<>> THEN EmptyDict ELSE cur[1].output
        processes == Get(current_state, "detected_processes", <<>>)
    IN  [company_name |-> Get(data, "company_name", "Unknown"),
         website |-> Get(data, "website", ""),
         headline |-> Get(summary, "headline", ""),
         key_findings |-> Get(summary, "key_findings", <<>>),
         total_savings_range |-> Get(summary, "total_savings_range",
                                     [min |-> <<50000, 1>>, max |-> <<200000, 1>>]),
         observed_indicators |->
            [i \in DOMAIN processes |->
                [indicator |-> processes[i].process, confidence |-> Pct(80),
                 maturity |-> processes[i].maturity]],
         maturity_score |-> Get(current_state, "operational_maturity", Pct(30)),
         opportunities |-> opportunities,
         roadmap_phases |-> Get(report_output.output, "implementation_roadmap", <<>>),
         quick_wins |-> LET low == SelectSeq(opportunities,
                                             LAMBDA o : o.implementation_effort = "low")
                        IN  [i \in DOMAIN low |-> low[i].title],
         payback_period |-> Get(roi_data, "payback_period", [min |-> 6, max |-> 12]),
         year_one_roi |-> Get(roi_data, "year_one_roi", <<100, 1>>),
         overall_confidence |-> report_output.confidence,
         agent_outputs |-> outputs]

\* the dicts research_prospect returns (asdict of a CompanyResearch), with the keys
\* the audit reads
ResearchResults ==
    {[company_name |-> "Acme", website |-> "https://acme.example",
      industry |-> industry, company_size |-> company_size,
      tech_stack |-> tech_stack, key_pages |-> key_pages] :
        industry \in {"Technology", "E-commerce", "Healthcare", "Finance",
                      "General Business", "Unknown"},
        company_size \in DOMAIN SizeMultipliers,
        tech_stack \in {{}, {"hubspot"}, {"zendesk", "react"},
                        {"salesforce", "intercom", "aws", "stripe"},
                        {"wordpress", "react", "google_analytics", "stripe",
                         "mailchimp", "cloudflare"}},
        key_pages \in {EmptyDict, [careers |-> "https://acme.example/careers"]}}

NoReport == "no report"

\* company_data = research_prospect(website_url), then the first context
ResearchReturns ==
    /\ audit_pc.at = "research"
    /\ \E data \in ResearchResults :
        /\ company_data' = data
        /\ context' = InitialContext(data)
    /\ agent_outputs' = <<>>
    /\ audit_pc' = [at |-> "before", i |-> 1]
    /\ UNCHANGED <<stage_log, audit_report, audit_result>>

\* research_prospect raises: nothing catches it
ResearchRaises ==
    /\ audit_pc.at = "research"
    /\ audit_result' = "raised"
    /\ audit_pc' = [at |-> "done", i |-> 0]
    /\ UNCHANGED <<company_data, agent_outputs, context, stage_log, audit_report>>

\* generate_audit calls self.agents[i - 1].analyze(context)
AgentCalled(i) ==
    /\ audit_pc = [at |-> "before", i |-> i]
    /\ context' = BeforeCall(i, context)
    /\ stage_log' = Append(stage_log, [event |-> "call", agent |-> Agents[i],
                                       outputs |-> Len(agent_outputs)])
    /\ audit_pc' = [at |-> "in", i |-> i]
    /\ UNCHANGED <<company_data, agent_outputs, audit_report, audit_result>>

\* a containing handler, as the other pipelines of the repository have: the
\* failure is logged and the run goes on with the next stage
AgentRaisesContained(i) ==
    /\ audit_pc = [at |-> "in", i |-> i]
    /\ stage_log' = Append(stage_log, [event |-> "raise", agent |-> Agents[i],
                                       outputs |-> Len(agent_outputs)])
    /\ audit_pc' = IF i < 6 THEN [at |-> "before", i |-> i + 1]
                   ELSE [at |-> "done", i |-> 0]
    /\ audit_result' = IF i < 6 THEN audit_result ELSE "raised"
    /\ UNCHANGED <<company_data, agent_outputs, context, audit_report>>

\* analyze raises: generate_audit has no try, the exception leaves it
AgentRaises(i) ==
    /\ audit_pc = [at |-> "in", i |-> i]
    /\ stage_log' = Append(stage_log, [event |-> "raise", agent |-> Agents[i],
                                       outputs |-> Len(agent_outputs)])
    /\ audit_result' = "raised"
    /\ audit_pc' = [at |-> "done", i |-> 0]
    /\ UNCHANGED <<company_data, agent_outputs, context, audit_report>>

\* analyze returns: the output is appended and merged into the context
AgentReturns(i) ==
    /\ audit_pc = [at |-> "in", i |-> i]
    /\ LET out == Analyze(Agents[i], Resolve(context, agent_outputs))
       IN  /\ agent_outputs' = RecordOutput(agent_outputs, out)
           /\ context' = AfterReturn(i, context, out)
    /\ stage_log' = Append(stage_log, [event |-> "return", agent |-> Agents[i],
                                       outputs |-> Len(agent_outputs)])
    /\ audit_pc' = IF i < 6 THEN [at |-> "before", i |-> i + 1]
                   ELSE [at |-> "final", i |-> 0]
    /\ UNCHANGED <<company_data, audit_report, audit_result>>

\* report = self._create_final_report(...); return report
FinalReportReturned ==
    /\ audit_pc.at = "final"
    /\ audit_report' = CreateFinalReport(company_data, agent_outputs,
                                         agent_outputs[Len(agent_outputs)])
    /\ audit_result' = "returned"
    /\ audit_pc' = [at |-> "done", i |-> 0]
    /\ UNCHANGED <<company_data, agent_outputs, context, stage_log>>

----------------------------------------------------------------------------
(* IndustryBaselineAgent.analyze called on its own.                        *)

\* the input dicts: industry and company_size are table entries, other strings, or
\* absent keys
BaselineInputs ==
    LET industries == DOMAIN IndustryData \cup {"Finance", "General Business"}
        sizes == DOMAIN SizeMultipliers \cup {"Enterprise"}
    IN  {[industry |-> i, company_size |-> z] : i \in industries, z \in sizes}
        \cup {[industry |-> i] : i \in industries}
        \cup {[company_size |-> z] : z \in sizes}
        \cup {EmptyDict}

\* an IndustryBaselineAgent and the dict it will be called with
NewBaselineCall(input_data) ==
    [input_data |-> input_data, status |-> "idle", output |-> EmptyDict,
     confidence |-> RZero]

\* out = IndustryBaselineAgent().analyze(input_data)
BaselineAnalyzes ==
    /\ baseline.status = "idle"
    /\ LET out == IndustryBaselineAnalyze(baseline.input_data)
       IN  baseline' = [baseline EXCEPT !.status = "returned",
                                        !.output = out.output,
                                        !.confidence = out.confidence]

\* the caller prepares another input dict for the call
BaselineInputChanges ==
    /\ baseline.status = "idle"
    /\ \E input_data \in BaselineInputs :
        /\ input_data # baseline.input_data
        /\ baseline' = NewBaselineCall(input_data)

----------------------------------------------------------------------------
(* SolutionArchitect.analyze called on its own, on lists of automation     *)
(* gaps as InefficiencyDetector builds them.                               *)

MaxGaps == 3
MaxArchitectCalls == 2

\* a gap of a detected process of low or medium maturity
GapOf(process, maturity) ==
    [process |-> process, current_maturity |-> maturity,
     gap_severity |-> IF maturity = "low" THEN "high" ELSE "medium",
     automation_potential |-> IF maturity = "low" THEN "high" ELSE "medium"]

\* the lists of at most MaxGaps gaps
GapLists ==
    UNION {[1..n -> {GapOf(process, maturity) :
                        process \in {"Email-only support",
                                     "Manual data entry", "Time tracking",
                                     "Manual data entry, MANUAL SALES TRACKING"},
                        maturity \in {"low", "medium"}}] : n \in 0..MaxGaps}

\* a SolutionArchitect and the gaps it will be called with
NewArchitectCall(gaps) ==
    [gaps |-> gaps, calls |-> 0, output |-> EmptyDict, first_output |-> EmptyDict]

\* output = SolutionArchitect().analyze({'automation_gaps': gaps}).output
ArchitectAnalyzes ==
    /\ architect.calls < MaxArchitectCalls
    /\ LET out == SolutionArchitectAnalyze([automation_gaps |-> architect.gaps]).output
       IN  architect' = [architect EXCEPT
                            !.calls = @ + 1,
                            !.output = out,
                            !.first_output = IF architect.calls = 0 THEN out ELSE @]

----------------------------------------------------------------------------
(* performance_optimizer.py: RateLimiter, called from several threads.     *)
(* Time is counted in tenths of a second.                                  *)

\* self.limits
Limits ==
    [service \in {"heygen", "did", "openai", "scraping"} |->
        CASE service = "heygen" -> [calls |-> 10, period |-> 60]
          [] service = "did" -> [calls |-> 10, period |-> 60]
          [] service = "openai" -> [calls |-> 50, period |-> 60]
          [] service = "scraping" -> [calls |-> 30, period |-> 60]]

\* the service the threads call, as OptimizedPipeline and test_rate_limiter do
Service == "did"

\* limit['period'] and limit['calls'] of the service
Period == 10 * Limits[Service].period
Calls == Limits[Service].calls

\* the threads that share the RateLimiter
LimiterThreads == {"t1", "t2"}

\* the values time.time() takes: the start, one period later, and just after that
LimiterTimes == {0, Period, Period + 1}

\* a thread that is not inside a RateLimiter method
IdleThread == [pc |-> "idle", wait_time |-> 0, wake |-> 0, slept |-> FALSE]

\* no call of wait_if_needed has returned yet
NoReturn == [thread |-> "none", service |-> "none", wait_time |-> 0,
             slept |-> FALSE, recorded |-> 0]

\* RateLimiter(): empty histories; recorded lists every record_call so far
NewRateLimiter ==
    [history |-> <<>>, clock |-> 0, recorded |-> <<>>,
     threads |-> [th \in LimiterThreads |-> IdleThread], returned |-> NoReturn]

\* while history and history[0] < cutoff: history.popleft()
RECURSIVE PopOld(_, _)
PopOld(history, cutoff) ==
    IF history # <<>> /\ Head(history) < cutoff THEN PopOld(Tail(history), cutoff)
    ELSE history

\* print(...); time.sleep(min(wait_time, 1)): a negative length raises ValueError
SleepOrRaise(thread) ==
    IF thread.wait_time < 0
    THEN [thread EXCEPT !.pc = "raised"]
    ELSE [thread EXCEPT !.pc = "sleep",
                        !.wake = limiter.clock + (IF thread.wait_time < 10
                                                  THEN thread.wait_time ELSE 10)]

\* a thread enters wait_if_needed(service)
WaitIfNeededCalled(th) ==
    /\ limiter.threads[th].pc = "idle"
    /\ limiter' = [limiter EXCEPT !.threads[th] = [IdleThread EXCEPT !.pc = "wait_loop"]]

\* wait_if_needed(service) for a service that is not in self.limits: return 0
WaitIfNeededUnlimited(th) ==
    /\ limiter.threads[th].pc = "idle"
    /\ "unknown" \notin DOMAIN Limits
    /\ limiter' = [limiter EXCEPT
            !.returned = [thread |-> th, service |-> "unknown", wait_time |-> 0,
                          slept |-> FALSE, recorded |-> 0]]

\* a thread starts `if limiter.can_call(service): limiter.record_call(service)`
CanCallThenRecordCalled(th) ==
    /\ limiter.threads[th].pc = "idle"
    /\ limiter' = [limiter EXCEPT !.threads[th] = [IdleThread EXCEPT !.pc = "test_check"]]

\* can_call(service), under the lock: old calls are dropped, the rest is counted
CanCall(th) ==
    /\ limiter.threads[th].pc \in {"wait_loop", "test_check"}
    /\ LET thread == limiter.threads[th]
           history == PopOld(limiter.history, limiter.clock - Period)
           allowed == Len(history) < Calls
       IN  limiter' = [limiter EXCEPT
                !.history = history,
                !.threads[th] =
                    IF allowed
                    THEN [thread EXCEPT !.pc = IF thread.pc = "test_check"
                                               THEN "test_record" ELSE "record"]
                    ELSE IF thread.pc = "test_check" THEN IdleThread
                    ELSE IF thread.wait_time = 0 THEN [thread EXCEPT !.pc = "compute"]
                    ELSE SleepOrRaise(thread)]

\* wait_if_needed computes wait_time under the lock, then sleeps
ComputeWaitTime(th) ==
    /\ limiter.threads[th].pc = "compute"
    /\ LET thread == limiter.threads[th]
           remaining == (Head(limiter.history) + Period) - limiter.clock
           wait_time == IF limiter.history # <<>>
                        THEN (IF remaining > 1 THEN remaining ELSE 1)
                        ELSE thread.wait_time
       IN  limiter' = [limiter EXCEPT
                !.threads[th] = SleepOrRaise([thread EXCEPT !.wait_time = wait_time])]

\* time.sleep returns once the time has passed; wait_time -= 1
SleepReturns(th) ==
    /\ limiter.threads[th].pc = "sleep"
    /\ limiter.clock >= limiter.threads[th].wake
    /\ limiter' = [limiter EXCEPT !.threads[th].pc = "wait_loop",
                                  !.threads[th].wait_time = @ - 10,
                                  !.threads[th].slept = TRUE]

\* record_call(service), under the lock; the method that called it returns, and
\* wait_if_needed returns wait_time
RecordCall(th) ==
    /\ limiter.threads[th].pc \in {"record", "test_record"}
    /\ limiter' = [limiter EXCEPT
            !.history = Append(@, limiter.clock),
            !.recorded = Append(@, limiter.clock),
            !.threads[th] = IdleThread,
            !.returned = IF limiter.threads[th].pc = "record"
                         THEN [thread |-> th, service |-> Service,
                               wait_time |-> limiter.threads[th].wait_time,
                               slept |-> limiter.threads[th].slept,
                               recorded |-> 1]
                         ELSE @]

\* time.time() moves on
LimiterTick ==
    /\ \E t \in LimiterTimes : t > limiter.clock /\ limiter' = [limiter EXCEPT !.clock = t]

----------------------------------------------------------------------------
(* performance_optimizer.py: CacheManager. Time is counted in hours.       *)

\* self.ttl, in hours
Ttl ==
    [cache_type \in {"research", "enrichment", "audit", "script", "video"} |->
        CASE cache_type = "research" -> 7 * 24
          [] cache_type = "enrichment" -> 3 * 24
          [] cache_type = "audit" -> 24
          [] cache_type = "script" -> 12
          [] cache_type = "video" -> 30 * 24]

\* self.ttl.get(cache_type, timedelta(hours=1))
MaxAge(cache_type) == IF cache_type \in DOMAIN Ttl THEN Ttl[cache_type] ELSE 1

\* a plausible slip: an entry still served at the very end of its time to live
IsValidAgeInclusive(age, max_age) == age <= max_age

\* age < max_age
IsValidAge(age, max_age) == age < max_age

\* a key that a layer does not hold
NoEntry == [value |-> "", timestamp |-> 0, type |-> ""]

\* _is_valid(entry, cache_type), asked at time now
IsValid(entry, cache_type, now) ==
    /\ entry # NoEntry
    /\ IsValidAge(now - entry.timestamp, MaxAge(cache_type))

\* the keys, values and cache types the callers use, and the values of datetime.now()
CacheKeys == {"test_key"}
CacheValues == {"v1", "v2"}
CacheTypes == {"general", "script"}
CacheTimes == {0, 1, 2, 11, 12, 13}

\* no call made yet
NoCacheCall == [op |-> "none", key |-> "", cache_type |-> "", result |-> "None", at |-> 0]

\* CacheManager(): both layers empty; disk_cache is None without the diskcache package
NewCacheManager(diskcache_available) ==
    [memory_cache |-> [k \in CacheKeys |-> NoEntry],
     disk_cache |-> [k \in CacheKeys |-> NoEntry],
     diskcache_available |-> diskcache_available,
     clock |-> 0,
     last_set |-> [k \in CacheKeys |-> NoEntry],
     cleared |-> [k \in CacheKeys |-> FALSE],
     last_call |-> NoCacheCall]

\* set(key, value, cache_type); disk_written is FALSE when the disk layer raises
CacheSet(key, value, cache_type, disk_written) ==
    LET entry == [value |-> value, timestamp |-> cache.clock, type |-> cache_type]
    IN  /\ disk_written => cache.diskcache_available
        /\ cache' = [cache EXCEPT
                !.memory_cache[key] = entry,
                !.disk_cache[key] = IF disk_written THEN entry ELSE @,
                !.last_set[key] = entry,
                !.cleared[key] = FALSE,
                !.last_call = [op |-> "set", key |-> key, cache_type |-> cache_type,
                               result |-> "None", at |-> cache.clock]]

\* get(key, cache_type); disk_read is FALSE when the disk layer raises or is absent
CacheGet(key, cache_type, disk_read) ==
    LET in_memory == IsValid(cache.memory_cache[key], cache_type, cache.clock)
        on_disk == /\ ~in_memory
                   /\ disk_read
                   /\ IsValid(cache.disk_cache[key], cache_type, cache.clock)
        result == IF in_memory THEN cache.memory_cache[key].value
                  ELSE IF on_disk THEN cache.disk_cache[key].value
                  ELSE "None"
    IN  /\ disk_read => cache.diskcache_available
        /\ cache' = [cache EXCEPT
                !.memory_cache[key] = IF on_disk THEN cache.disk_cache[key] ELSE @,
                !.last_call = [op |-> "get", key |-> key, cache_type |-> cache_type,
                               result |-> result, at |-> cache.clock]]

\* clear(cache_type); "None" stands for a call without a type. cleared notes the
\* keys whose last set had the type that is cleared
CacheClear(cache_type) ==
    LET all == cache_type = "None"
    IN  cache' = [cache EXCEPT
            !.memory_cache = [k \in CacheKeys |->
                                IF all \/ cache.memory_cache[k].type = cache_type
                                THEN NoEntry ELSE cache.memory_cache[k]],
            !.disk_cache = IF cache.diskcache_available /\ all
                           THEN [k \in CacheKeys |-> NoEntry] ELSE @,
            !.cleared = [k \in CacheKeys |->
                            \/ cache.cleared[k]
                            \/ cache.last_set[k] # NoEntry
                               /\ (all \/ cache.last_set[k].type = cache_type)],
            !.last_call = [op |-> "clear", key |-> "", cache_type |-> cache_type,
                           result |-> "None", at |-> cache.clock]]

\* datetime.now() moves on
CacheTick ==
    /\ \E t \in CacheTimes : t > cache.clock /\ cache' = [cache EXCEPT !.clock = t]

----------------------------------------------------------------------------
(* CacheManager.set called by two threads for the same key, without a lock. *)

\* the threads that call set, and the value each one writes
CacheWriters == {"w1", "w2"}
ValueOf(writer) == IF writer = "w1" THEN "v1" ELSE "v2"

\* a thread that has not called set yet
IdleWriter == [pc |-> "idle", entry |-> NoEntry, disk_raised |-> FALSE]

\* CacheManager() shared by the writers; key is the key they all write
NewSharedCache(diskcache_available) ==
    [memory_cache |-> NoEntry,
     disk_cache |-> NoEntry,
     diskcache_available |-> diskcache_available,
     clock |-> 0,
     writers |-> [w \in CacheWriters |-> IdleWriter],
     got |-> "not called"]

\* set: entry = {'value': value, 'timestamp': datetime.now(), 'type': cache_type}
WriterBuildsEntry(w, cache_type) ==
    /\ shared_cache.writers[w].pc = "idle"
    /\ shared_cache' = [shared_cache EXCEPT
            !.writers[w].pc = "memory",
            !.writers[w].entry = [value |-> ValueOf(w), timestamp |-> shared_cache.clock,
                                  type |-> cache_type]]

\* set: self.memory_cache[key] = entry
WriterSetsMemory(w) ==
    /\ shared_cache.writers[w].pc = "memory"
    /\ shared_cache' = [shared_cache EXCEPT
            !.memory_cache = shared_cache.writers[w].entry,
            !.writers[w].pc = IF shared_cache.diskcache_available THEN "disk" ELSE "done"]

\* set: self.disk_cache.set(key, entry); an exception is swallowed
WriterSetsDisk(w, raised) ==
    /\ shared_cache.writers[w].pc = "disk"
    /\ shared_cache' = [shared_cache EXCEPT
            !.disk_cache = IF raised THEN @ ELSE shared_cache.writers[w].entry,
            !.writers[w].pc = "done",
            !.writers[w].disk_raised = raised]

\* every writer has returned from set
AllWritersDone == \A w \in CacheWriters : shared_cache.writers[w].pc = "done"

\* get(key, cache_type) after the writers have returned
SharedCacheGet(cache_type) ==
    /\ AllWritersDone
    /\ LET now == shared_cache.clock
           in_memory == IsValid(shared_cache.memory_cache, cache_type, now)
           on_disk == /\ ~in_memory
                      /\ shared_cache.diskcache_available
                      /\ IsValid(shared_cache.disk_cache, cache_type, now)
       IN  shared_cache' = [shared_cache EXCEPT
                !.memory_cache = IF on_disk THEN shared_cache.disk_cache ELSE @,
                !.got = IF in_memory THEN shared_cache.memory_cache.value
                        ELSE IF on_disk THEN shared_cache.disk_cache.value
                        ELSE "None"]

\* datetime.now() moves on
SharedCacheTick ==
    /\ \E t \in CacheTimes :
            t > shared_cache.clock /\ shared_cache' = [shared_cache EXCEPT !.clock = t]

----------------------------------------------------------------------------
(* enrichment_engine.py: DataEnrichmentEngine's parallel providers.        *)

\* self.providers, by name
Providers == {"Clearbit", "Apollo", "LinkedIn", "NewsAPI"}

\* the scalar fields and the list fields that _merge_enrichment_data fills
ScalarFields == {"founded_year", "headquarters", "revenue_range", "funding_total", "funding_stage"}
ListFields == {"technologies", "competitors", "recent_news", "job_postings"}

\* the attribute of EnrichedCompanyData a list field is added to
ListAttr(f) == IF f = "technologies" THEN "tech_stack" ELSE f

\* what ClearbitProvider.enrich can return: {} or the fields of the response
ClearbitResults ==
    {EmptyDict} \cup
    {[f \in {"founded_year", "headquarters", "revenue_range", "employee_count"} |->
        CASE f = "founded_year" -> fy
          [] f = "headquarters" -> hq
          [] f = "revenue_range" -> rr
          [] f = "employee_count" -> PyNone] :
        fy \in {PyNone, PyInt(2010)},
        hq \in {PyStr(<<"N", "o", "n", "e", ",", " ", "N", "o", "n", "e">>), PyStr(<<"A", "u", "s", "t", "i", "n", ",", " ", "T", "X">>)},
        rr \in {PyNone, PyStr(<<"$", "1", "M", "-", "$", "1", "0", "M">>)}}

\* what ApolloProvider.enrich can return
ApolloResults ==
    {EmptyDict} \cup
    {[f \in {"founded_year", "headquarters", "funding_total", "funding_stage", "technologies"} |->
        CASE f = "founded_year" -> fy
          [] f = "headquarters" -> hq
          [] f = "funding_total" -> ft
          [] f = "funding_stage" -> fs
          [] f = "technologies" -> PyList(1)] :
        fy \in {PyNone, PyInt(2010), PyInt(2011)},
        hq \in {PyNone, PyStr(<<"A", "u", "s", "t", "i", "n", ",", " ", "T", "X">>), PyStr(<<"B", "o", "s", "t", "o", "n", ",", " ", "M", "A">>)},
        ft \in {PyNone, PyInt(5000000)},
        fs \in {PyNone, PyStr(<<"S", "e", "r", "i", "e", "s", " ", "A">>)}}

\* what LinkedInProvider.enrich and NewsProvider.enrich return
LinkedInResult ==
    [f \in {"employee_growth", "recent_posts", "job_postings_count", "follower_count"} |->
        CASE f = "employee_growth" -> PyNone
          [] f = "recent_posts" -> PyList(0)
          [] OTHER -> PyInt(0)]
NewsResult == [f \in {"recent_news"} |-> PyList(0)]

\* EnrichedCompanyData(...): the enriched fields start as None and as empty lists
NewEnriched ==
    [f \in ScalarFields \cup {ListAttr(g) : g \in ListFields} |->
        IF f \in ScalarFields THEN PyNone ELSE PyList(0)]

\* _merge_enrichment_data(enriched, data, source)
MergeEnrichmentData(enriched, data) ==
    [f \in DOMAIN enriched |->
        IF f \in ScalarFields
        THEN (IF f \in DOMAIN data /\ ~Truthy(enriched[f]) THEN data[f] ELSE enriched[f])
        ELSE LET added == {g \in ListFields : ListAttr(g) = f /\ g \in DOMAIN data}
             IN  IF added = {} THEN enriched[f]
                 ELSE PyList(enriched[f].n + data[CHOOSE g \in added : TRUE].n)]

\* for provider_name, data in enrichment_results.items(): merge, in the dict's order
RECURSIVE MergeAll(_, _, _)
MergeAll(enriched, order, returned) ==
    IF order = <<>> THEN enriched
    ELSE MergeAll(MergeEnrichmentData(enriched, returned[Head(order)]), Tail(order), returned)

\* enrich_company has submitted provider.enrich to the pool for every provider
NewEnrichmentRun(clearbit, apollo) ==
    [returned |-> [p \in Providers |->
                     CASE p = "Clearbit" -> clearbit
                       [] p = "Apollo" -> apollo
                       [] p = "LinkedIn" -> LinkedInResult
                       [] p = "NewsAPI" -> NewsResult],
     running |-> Providers,
     results |-> <<>>,
     enriched |-> NewEnriched,
     pc |-> "gather"]

\* as_completed yields a provider's future: a non-empty result enters the dict
ProviderCompletes(p) ==
    /\ enrichment.pc = "gather"
    /\ p \in enrichment.running
    /\ enrichment' = [enrichment EXCEPT
            !.running = @ \ {p},
            !.results = IF DOMAIN enrichment.returned[p] # {} THEN Append(@, p) ELSE @]

\* enrich_company merges the results, in the order they entered the dict
MergeEnrichmentResults ==
    /\ enrichment.pc = "gather"
    /\ enrichment.running = {}
    /\ enrichment' = [enrichment EXCEPT
            !.enriched = MergeAll(@, enrichment.results, enrichment.returned),
            !.pc = "merged"]

----------------------------------------------------------------------------
(* core_test.py: generate_video_did and poll_did_status. Time in seconds.  *)

\* max_wait: int = 60, and time.sleep(5)
MaxWait == 60
PollSleep == 5

\* the time a request takes, and the time a sleep takes beyond its length
RequestSeconds == {0, 1}
Oversleep == {0, 1}

\* what requests.post(url, ...) can do: raise, or answer with a status and a body
PostOutcomes ==
    {[raised |-> TRUE, status_code |-> 0, body |-> "none"]} \cup
    {[raised |-> FALSE, status_code |-> sc, body |-> "none"] : sc \in {429, 402, 500}} \cup
    {[raised |-> FALSE, status_code |-> 201, body |-> b] : b \in {"id", "no id", "not json"}}

\* no status response received
NoResponse ==
    [raised |-> FALSE, status_code |-> 0, body |-> "none", status |-> "None",
     result_url |-> "None", error |-> "absent"]

\* what requests.get(url, headers=headers) can do: raise, answer with another
\* status code, with a body that is not JSON, or with a JSON object whose
\* 'error' is absent, an object with or without 'message', or not an object
StatusOutcomes ==
    {[NoResponse EXCEPT !.raised = TRUE]} \cup
    {[NoResponse EXCEPT !.status_code = sc] : sc \in {404, 500}} \cup
    {[NoResponse EXCEPT !.status_code = 200, !.body = "not json"]} \cup
    {[NoResponse EXCEPT !.status_code = 200, !.body = "object", !.status = st] :
        st \in {"None", "created", "started"}} \cup
    {[NoResponse EXCEPT !.status_code = 200, !.body = "object", !.status = "done",
                        !.result_url = u] : u \in {"None", "https://d-id/1.mp4"}} \cup
    {[NoResponse EXCEPT !.status_code = 200, !.body = "object", !.status = st, !.error = e] :
        st \in {"error", "rejected"},
        e \in {"absent", "object", "object without message", "not an object"}}

\* the ways a call ends: it returns None, returns the result dict, or raises
NotReturned == [kind |-> "running", video_url |-> "None"]
ReturnsNone == [kind |-> "None", video_url |-> "None"]
ReturnsSuccess(video_url) == [kind |-> "success", video_url |-> video_url]
Raises == [kind |-> "raised", video_url |-> "None"]

\* one pass of poll_did_status's loop body on a response: the call's end, or
\* NotReturned when it sleeps and goes round again
PollStep(r) ==
    IF r.raised THEN Raises
    ELSE IF r.status_code # 200 THEN ReturnsNone
    ELSE IF r.body = "not json" THEN Raises
    ELSE IF r.status = "done" THEN ReturnsSuccess(r.result_url)
    ELSE IF r.status \in {"error", "rejected"}
         THEN (IF r.error = "not an object" THEN Raises ELSE ReturnsNone)
    ELSE NotReturned

\* except Exception as e: ... return None, around the call of poll_did_status
CaughtByGenerate(result) == IF result = Raises THEN ReturnsNone ELSE result

\* nothing called yet
NewDidRun ==
    [pc |-> "idle", api_key |-> FALSE, clock |-> 0, start_time |-> 0,
     post |-> [raised |-> FALSE, status_code |-> 0, body |-> "none"],
     last |-> NoResponse, polls |-> 0, timed_out |-> FALSE,
     poll_result |-> NotReturned, result |-> NotReturned]

\* generate_video_did(script) up to its return or to the call of poll_did_status
GenerateVideoDidCalled(api_key, post, elapsed) ==
    /\ did.pc = "idle"
    /\ LET polling == /\ api_key
                      /\ ~post.raised
                      /\ post.status_code = 201
                      /\ post.body = "id"
           now == IF api_key THEN did.clock + elapsed ELSE did.clock
       IN  did' = [did EXCEPT
                !.api_key = api_key,
                !.post = IF api_key THEN post ELSE @,
                !.clock = now,
                !.start_time = now,
                !.pc = IF polling THEN "polling" ELSE "finished",
                !.result = IF ~api_key THEN Raises
                           ELSE IF polling THEN NotReturned
                           ELSE ReturnsNone]

\* poll_did_status: the loop condition fails
PollTimesOut ==
    /\ did.pc = "polling"
    /\ ~(did.clock - did.start_time < MaxWait)
    /\ did' = [did EXCEPT !.pc = "finished", !.timed_out = TRUE,
                          !.poll_result = ReturnsNone, !.result = ReturnsNone]

\* poll_did_status: one pass of the loop, with the sleep when the video is not ready
PollGetsResponse(r, elapsed, oversleep) ==
    /\ did.pc = "polling"
    /\ did.clock - did.start_time < MaxWait
    /\ LET step == PollStep(r)
       IN  did' = [did EXCEPT
                !.last = r,
                !.polls = @ + 1,
                !.clock = IF step = NotReturned THEN @ + elapsed + PollSleep + oversleep
                          ELSE @ + elapsed,
                !.pc = IF step = NotReturned THEN "polling" ELSE "finished",
                !.poll_result = step,
                !.result = CaughtByGenerate(step)]

----------------------------------------------------------------------------
(* api.py: POST /api/generate-video.                                       *)

\* if word_count > 250
MaxWords == 250

\* required_fields
RequiredFields == {"company", "website", "industry"}

\* the values of data['mode'] the clients send
Modes ==
    {Absent, PyNone, PyInt(5), PyStr(<<"a", "v", "a", "t", "a", "r">>), PyStr(<<"A", "v", "a", "t", "a", "r">>), PyStr(<<"f", "a", "c", "e", "l", "e", "s", "s">>), PyStr(<<"v", "i", "d", "e", "o">>)}

\* data['script']: absent, not a str, or a str of so many characters and words
Scripts ==
    {[kind |-> "absent", chars |-> 0, words |-> 0],
     [kind |-> "list", chars |-> 0, words |-> 0],
     [kind |-> "str", chars |-> 0, words |-> 0],
     [kind |-> "str", chars |-> 3, words |-> 0],
     [kind |-> "str", chars |-> 5, words |-> 1],
     [kind |-> "str", chars |-> 6 * MaxWords, words |-> MaxWords],
     [kind |-> "str", chars |-> 6 * MaxWords + 6, words |-> MaxWords + 1]}

\* a request and what its processing meets: what request.get_json() does, the
\* fields of the body, what generate_video_did(script) does and what
\* generate_faceless_video(company_data) does
Requests ==
    [json : {"raises", "falsy", "object", "not an object"},
     mode : Modes,
     script : Scripts,
     fields : SUBSET RequiredFields,
     did_result : {ReturnsNone, ReturnsSuccess("https://d-id/1.mp4"), Raises},
     video_path : {"output.mp4", "None", "raises"}]

\* jsonify({'success': ..., ...}), status
Response(status, success) == [status |-> status, success |-> success]

\* except Exception as e: ... return jsonify({...}), 500
InternalServerError == Response(500, FALSE)

\* a plausible slip: the result of the generation not looked at
AvatarResponseAlwaysOk(result) ==
    IF result = Raises THEN InternalServerError ELSE Response(200, TRUE)

\* the avatar branch after generate_video_did has returned result
AvatarResponse(result) ==
    IF result = Raises THEN InternalServerError
    ELSE IF result.kind = "success" THEN Response(200, TRUE)
    ELSE Response(500, FALSE)

\* the faceless branch after generate_faceless_video has returned video_path
FacelessResponse(video_path) ==
    IF video_path = "raises" THEN InternalServerError
    ELSE IF video_path # "None" THEN Response(200, TRUE)
    ELSE Response(500, FALSE)

\* generate_video(): the whole handler
GenerateVideo(req) ==
    IF req.json = "raises" THEN InternalServerError
    ELSE IF req.json = "falsy" THEN Response(400, FALSE)
    ELSE IF req.json = "not an object" THEN InternalServerError
    ELSE IF req.mode # Absent /\ req.mode.k # "str" THEN InternalServerError
    ELSE IF req.mode # Absent /\ StrLower(req.mode.s) = <<"a", "v", "a", "t", "a", "r">>
    THEN (IF req.script.kind = "absent" \/ (req.script.kind = "str" /\ req.script.chars = 0)
          THEN Response(400, FALSE)
          ELSE IF req.script.kind # "str" THEN InternalServerError
          ELSE IF req.script.words > MaxWords THEN Response(400, FALSE)
          ELSE AvatarResponse(req.did_result))
    ELSE (IF req.fields # RequiredFields THEN Response(400, FALSE)
          ELSE FacelessResponse(req.video_path))

\* the server waits for a request
NoRequest ==
    [json |-> "none", mode |-> Absent, script |-> [kind |-> "absent", chars |-> 0, words |-> 0],
     fields |-> {}, did_result |-> NotReturned, video_path |-> "None"]
ApiWaiting == [pc |-> "waiting", request |-> NoRequest, response |-> Response(0, FALSE)]

\* a client posts a request and the handler answers it
GenerateVideoRequested(req) ==
    /\ api.pc = "waiting"
    /\ api' = [pc |-> "answered", request |-> req, response |-> GenerateVideo(req)]

----------------------------------------------------------------------------
(* InefficiencyDetector.analyze called on its own.                         *)

\* the longest detected_processes and common_pain_points lists of the inputs
MaxProcesses == 2
MaxPainPoints == 2

\* detected processes as CurrentStateAnalyzer writes them, and two whose name
\* holds a pain point
ProcessChoices ==
    {[process |-> "Manual sales tracking", maturity |-> "low", tool |-> "Likely spreadsheets"],
     [process |-> "CRM-based sales", maturity |-> "medium", tool |-> "HubSpot/Salesforce"],
     [process |-> "Digital customer support", maturity |-> "medium-high", tool |-> "Chat/Ticketing system"],
     [process |-> "Online scheduling", maturity |-> "high", tool |-> "Booking system"],
     [process |-> "MANUAL DATA ENTRY", maturity |-> "low", tool |-> "Basic email"],
     [process |-> "Time tracking", maturity |-> "medium-high", tool |-> "Phone/Email"]}

\* pain points of the industry table
PainPointChoices == {"Manual data entry", "Time tracking", "Cart abandonment"}

\* input_data with current_state.detected_processes and industry_baseline.common_pain_points
DetectorInputs ==
    {[current_state |-> [detected_processes |-> processes],
      industry_baseline |-> [common_pain_points |-> pain_points]] :
        processes \in UNION {[1..n -> ProcessChoices] : n \in 0..MaxProcesses},
        pain_points \in UNION {[1..n -> PainPointChoices] : n \in 0..MaxPainPoints}}

\* an InefficiencyDetector and the input of its next call
NewDetectorCall(input_data) ==
    [input_data |-> input_data, status |-> "idle", output |-> EmptyDict]

\* analyze(input_data) returns
DetectorAnalyzes ==
    /\ detector.status = "idle"
    /\ detector' = [detector EXCEPT
            !.status = "returned",
            !.output = InefficiencyAnalyze(detector.input_data).output]

----------------------------------------------------------------------------
(* ReportCompiler called on its own with a SolutionArchitect output         *)

MaxSequence == 2

\* the priorities an implementation sequence entry may carry
SequencePriorities == {<<1, 2>>, <<1, 1>>, <<3, 2>>, <<2, 1>>, <<5, 2>>, <<3, 1>>}

\* the entries of implementation_sequence
SequenceEntries ==
    {[automation |-> a, priority |-> p, dependencies |-> <<>>] :
        a \in {"Data Entry Automation", "Automated Scheduling"},
        p \in SequencePriorities}

ImplementationSequences ==
    UNION {[1..n -> SequenceEntries] : n \in 0..MaxSequence}

\* input_data with the SolutionArchitect output among agent_outputs
CompilerInput(sequence) ==
    [agent_outputs |->
        <<AgentOutput("SolutionArchitect",
                      [implementation_sequence |-> sequence], Pct(60))>>]

NewCompilerCall(sequence) ==
    [sequence |-> sequence, status |-> "idle", roadmap |-> <<>>]

\* analyze(input_data) returns
CompilerAnalyzes ==
    /\ compiler.status = "idle"
    /\ compiler' = [compiler EXCEPT
            !.status = "returned",
            !.roadmap = ReportCompilerAnalyze(CompilerInput(compiler.sequence))
                            .output.implementation_roadmap]

----------------------------------------------------------------------------
(* performance_optimizer.py: OptimizedPipeline.generate_report_and_video.   *)
(* Strings are sequences of characters; time is counted in hours. The two   *)
(* layers of the pipeline's CacheManager are written together by set and    *)
(* never cleared by the pipeline, so they are kept as one store.            *)

MaxPipelineCalls == 3

\* the website_url values of the calls: 'acme.co' and 'acme.com'
UrlCo == <<"a", "c", "m", "e", ".", "c", "o">>
UrlCom == <<"a", "c", "m", "e", ".", "c", "o", "m">>
WebsiteUrls == {UrlCo, UrlCom}

\* the prospect_name values of the calls: 'Jo' and 'mJo'
ProspectNames == {<<"J", "o">>, <<"m", "J", "o">>}

\* what may go wrong during a call: nothing, one of the engines of phase 1 or
\* both, the audit, the script, the rate limiter, or the video generation
PipelineFailures ==
    {"none", "research", "enrichment", "both", "audit", "script", "limiter", "video"}

\* the values of datetime.now(): the start, one day later, thirty days later
PipelineTimes == {0, 24, 30 * 24}

\* f"complete_{hashlib.md5(f'{website_url}{prospect_name}'.encode()).hexdigest()}":
\* the digest stands for the text it was taken of
CompleteKey(website_url, prospect_name) ==
    [kind |-> "complete", of |-> website_url \o prospect_name]

\* f"research_{website_url}", f"enriched_{website_url}", f"audit_{website_url}"
UrlKey(kind, website_url) == [kind |-> kind, of |-> website_url]

\* the entries of the store with the key
EntriesAt(store, key) == {e \in store : e.key = key}

\* self.cache.get(key, cache_type): the set of at most one value that is returned
PipelineCacheGet(store, key, cache_type, now) ==
    {e.value : e \in {e \in EntriesAt(store, key) :
                        IsValidAge(now - e.timestamp, MaxAge(cache_type))}}

\* self.cache.set(key, value, cache_type)
PipelineCacheSet(store, key, value, now) ==
    (store \ EntriesAt(store, key))
        \cup {[key |-> key, value |-> value, timestamp |-> now]}

\* the part of a cached value that tells which call made it
MadeFor(website_url, prospect_name) ==
    [website |-> website_url, prospect_name |-> prospect_name]

NoPipelineCall ==
    [website_url |-> <<>>, prospect_name |-> <<>>, result |-> "none",
     returned |-> MadeFor(<<>>, <<>>), phases_run |-> 0, recorded |-> 0,
     set_complete |-> FALSE]

\* OptimizedPipeline(): empty cache, no call yet
NewOptimizedPipeline ==
    [store |-> {}, clock |-> 0, calls |-> 0, rate_limited_calls |-> 0,
     succeeded |-> {}, last |-> NoPipelineCall]

\* generate_report_and_video(website_url, prospect_name), from the call to the
\* return
GenerateReportAndVideo(website_url, prospect_name, fail) ==
    /\ pipeline.calls < MaxPipelineCalls
    /\ LET now == pipeline.clock
           store0 == pipeline.store
           cached_result == PipelineCacheGet(store0, CompleteKey(website_url, prospect_name),
                                             "video", now)
           \* phase 1
           research_cached == PipelineCacheGet(store0, UrlKey("research", website_url),
                                             "research", now)
           enriched_cached == PipelineCacheGet(store0, UrlKey("enriched", website_url),
                                             "enrichment", now)
           run_engines == research_cached = {} \/ enriched_cached = {}
           research_raises == run_engines /\ research_cached = {}
                              /\ fail \in {"research", "both"}
           enrichment_raises == run_engines /\ enriched_cached = {}
                                /\ fail \in {"enrichment", "both"}
           store1a == IF run_engines /\ research_cached = {} /\ ~research_raises
                      THEN PipelineCacheSet(store0, UrlKey("research", website_url),
                                            MadeFor(website_url, <<>>), now)
                      ELSE store0
           store1 == IF run_engines /\ enriched_cached = {} /\ ~enrichment_raises
                     THEN PipelineCacheSet(store1a, UrlKey("enriched", website_url),
                                           MadeFor(website_url, <<>>), now)
                     ELSE store1a
           phase1_raises == research_raises \/ enrichment_raises
           \* phase 2
           audit_cached == PipelineCacheGet(store1, UrlKey("audit", website_url),
                                            "audit", now)
           phase2_raises == audit_cached = {} /\ fail = "audit"
           store2 == IF audit_cached = {} /\ ~phase2_raises
                     THEN PipelineCacheSet(store1, UrlKey("audit", website_url),
                                           MadeFor(website_url, <<>>), now)
                     ELSE store1
           \* phase 3 and phase 4
           phase3_raises == fail = "script"
           limiter_raises == fail = "limiter"
           video_raises == fail = "video"
           result == MadeFor(website_url, prospect_name)
           store4 == PipelineCacheSet(store2, CompleteKey(website_url, prospect_name),
                                      result, now)
           call == [NoPipelineCall EXCEPT !.website_url = website_url,
                                          !.prospect_name = prospect_name]
       IN  IF cached_result # {}
           THEN pipeline' = [pipeline EXCEPT
                    !.calls = @ + 1,
                    !.last = [call EXCEPT !.result = "cached",
                                          !.returned = CHOOSE v \in cached_result : TRUE]]
           ELSE IF phase1_raises
           THEN pipeline' = [pipeline EXCEPT
                    !.calls = @ + 1, !.store = store1,
                    !.last = [call EXCEPT !.result = "failure", !.phases_run = 1]]
           ELSE IF phase2_raises
           THEN pipeline' = [pipeline EXCEPT
                    !.calls = @ + 1, !.store = store1,
                    !.last = [call EXCEPT !.result = "failure", !.phases_run = 2]]
           ELSE IF phase3_raises
           THEN pipeline' = [pipeline EXCEPT
                    !.calls = @ + 1, !.store = store2,
                    !.last = [call EXCEPT !.result = "failure", !.phases_run = 3]]
           ELSE IF limiter_raises \/ video_raises
           THEN pipeline' = [pipeline EXCEPT
                    !.calls = @ + 1, !.store = store2,
                    !.rate_limited_calls = IF video_raises THEN @ + 1 ELSE @,
                    !.last = [call EXCEPT !.result = "failure", !.phases_run = 4,
                                          !.recorded = IF video_raises THEN 1 ELSE 0]]
           ELSE pipeline' = [pipeline EXCEPT
                    !.calls = @ + 1, !.store = store4,
                    !.rate_limited_calls = @ + 1,
                    !.succeeded = @ \cup {result},
                    !.last = [call EXCEPT !.result = "success", !.returned = result,
                                          !.phases_run = 4, !.recorded = 1,
                                          !.set_complete = TRUE]]

\* datetime.now() moves on
PipelineTick ==
    \E t \in PipelineTimes : t > pipeline.clock /\ pipeline' = [pipeline EXCEPT !.clock = t]

----------------------------------------------------------------------------
(* faceless_pipeline_integration.py: FacelessVideoPipeline.process_prospect. *)
(* The engines it calls are its environment: each call returns a value,      *)
(* returns nothing, or raises.                                               *)

\* what research_company returns: a dict, an object without get (as
\* ResearchEngine's CompanyResearch), nothing, or it raises
ResearchOutcomes == {"dict", "object", "none", "raises"}

\* generate_script, generate_faceless_video and generate_report
ScriptOutcomes == {"script", "raises"}
VideoOutcomes == {"path", "none", "raises"}
ReportOutcomes == {"path", "none", "raises"}

ProspectCalls ==
    [research : ResearchOutcomes, script : ScriptOutcomes, video : VideoOutcomes,
     include_report : BOOLEAN, report : ReportOutcomes]

\* result as process_prospect creates it
NewProspectResult ==
    [status |-> "processing", video_url |-> "None", report_url |-> "None",
     email_sent |-> FALSE, errors |-> <<>>]

\* except Exception as e: result['errors'].append(str(e)); result['status'] = 'failed'
ProspectFailed(result) ==
    [result EXCEPT !.errors = Append(@, "str(e)"), !.status = "failed"]

\* process_prospect(...) from the call to the returned dict
ProcessProspectResult(call) ==
    LET result == NewProspectResult
        \* 5. the video
        after_video ==
            IF call.video = "path" THEN [result EXCEPT !.video_url = "path"]
            ELSE [result EXCEPT !.errors = Append(@, "Failed to generate video"),
                                !.status = "partial"]
        \* 6. the report
        after_report ==
            IF ~call.include_report THEN after_video
            ELSE IF call.report = "path" THEN [after_video EXCEPT !.report_url = "path"]
            ELSE [after_video EXCEPT !.errors = Append(@, "Failed to generate report"),
                                     !.status = "partial"]
        \* 7. the delivery
        after_delivery ==
            IF after_report.video_url # "None"
            THEN [after_report EXCEPT !.email_sent = FALSE, !.status = "completed"]
            ELSE after_report
    IN  IF call.research = "raises" THEN ProspectFailed(result)
        ELSE IF call.research = "none"
        THEN [result EXCEPT !.errors = Append(@, "Failed to research company"),
                            !.status = "failed"]
        ELSE IF call.research = "object" THEN ProspectFailed(result)
        ELSE IF call.script = "raises" THEN ProspectFailed(result)
        ELSE IF call.video = "raises" THEN ProspectFailed(result)
        ELSE IF call.include_report /\ call.report = "raises"
        THEN ProspectFailed(after_video)
        ELSE after_delivery

NoProspectCall ==
    [research |-> "none", script |-> "script", video |-> "none",
     include_report |-> FALSE, report |-> "none"]

\* FacelessVideoPipeline(): process_prospect has not been called
NewFacelessPipeline ==
    [pc |-> "idle", call |-> NoProspectCall, result |-> NewProspectResult]

\* await process_prospect(...) runs and returns
ProcessProspect(call) ==
    /\ faceless_pipeline.pc = "idle"
    /\ faceless_pipeline' = [pc |-> "returned", call |-> call,
                    result |-> ProcessProspectResult(call)]

----------------------------------------------------------------------------
(* Specifications: one per component; the other components stand still.    *)

NextScorer ==
    \/ ScoreReturns /\ UNCHANGED <<dpVars, auditVars, architectVars, baselineVars, limiterVars, cacheVars, sharedCacheVars, enrichmentVars, didVars, apiVars, detectorVars, compilerVars, pipelineVars, facelessVars>>
    \/ ScoreRaises /\ UNCHANGED <<dpVars, auditVars, architectVars, baselineVars, limiterVars, cacheVars, sharedCacheVars, enrichmentVars, didVars, apiVars, detectorVars, compilerVars, pipelineVars, facelessVars>>

InitScorer ==
    /\ enriched_data \in ScorerInputs
    /\ report = NewConfidenceReport
    /\ score_status = "idle"
    /\ dp = NewDataPoint("UNKNOWN", 0)
    /\ clock = 0
    /\ dp_prev = NoCall
    /\ company_data = EmptyDict
    /\ audit_pc = [at |-> "research", i |-> 0]
    /\ agent_outputs = <<>>
    /\ context = EmptyDict
    /\ stage_log = <<>>
    /\ audit_report = NoReport
    /\ audit_result = "running"
    /\ architect = NewArchitectCall(<<>>)
    /\ baseline = NewBaselineCall(EmptyDict)
    /\ limiter = NewRateLimiter
    /\ cache = NewCacheManager(FALSE)
    /\ shared_cache = NewSharedCache(FALSE)
    /\ enrichment = NewEnrichmentRun(EmptyDict, EmptyDict)
    /\ did = NewDidRun
    /\ api = ApiWaiting
    /\ detector = NewDetectorCall(EmptyDict)
    /\ compiler = NewCompilerCall(<<>>)
    /\ pipeline = NewOptimizedPipeline
    /\ faceless_pipeline = NewFacelessPipeline

SpecScorer == InitScorer /\ [][NextScorer]_vars

NextDataPoint ==
    \/ CalculateConfidenceCall /\ UNCHANGED <<scorerVars, auditVars, architectVars, baselineVars, limiterVars, cacheVars, sharedCacheVars, enrichmentVars, didVars, apiVars, detectorVars, compilerVars, pipelineVars, facelessVars>>
    \/ Tick /\ UNCHANGED <<scorerVars, auditVars, architectVars, baselineVars, limiterVars, cacheVars, sharedCacheVars, enrichmentVars, didVars, apiVars, detectorVars, compilerVars, pipelineVars, facelessVars>>

InitDataPoint ==
    /\ enriched_data = EmptyDict
    /\ report = NewConfidenceReport
    /\ score_status = "idle"
    /\ dp \in {NewDataPoint(source, collected_at) :
                    source \in DOMAIN DataSource, collected_at \in {0, FutureSkew}}
    /\ clock = 0
    /\ dp_prev = NoCall
    /\ company_data = EmptyDict
    /\ audit_pc = [at |-> "research", i |-> 0]
    /\ agent_outputs = <<>>
    /\ context = EmptyDict
    /\ stage_log = <<>>
    /\ audit_report = NoReport
    /\ audit_result = "running"
    /\ architect = NewArchitectCall(<<>>)
    /\ baseline = NewBaselineCall(EmptyDict)
    /\ limiter = NewRateLimiter
    /\ cache = NewCacheManager(FALSE)
    /\ shared_cache = NewSharedCache(FALSE)
    /\ enrichment = NewEnrichmentRun(EmptyDict, EmptyDict)
    /\ did = NewDidRun
    /\ api = ApiWaiting
    /\ detector = NewDetectorCall(EmptyDict)
    /\ compiler = NewCompilerCall(<<>>)
    /\ pipeline = NewOptimizedPipeline
    /\ faceless_pipeline = NewFacelessPipeline

SpecDataPoint == InitDataPoint /\ [][NextDataPoint]_vars

NextAudit ==
    \/ ResearchReturns /\ UNCHANGED <<scorerVars, dpVars, architectVars, baselineVars, limiterVars, cacheVars, sharedCacheVars, enrichmentVars, didVars, apiVars, detectorVars, compilerVars, pipelineVars, facelessVars>>
    \/ ResearchRaises /\ UNCHANGED <<scorerVars, dpVars, architectVars, baselineVars, limiterVars, cacheVars, sharedCacheVars, enrichmentVars, didVars, apiVars, detectorVars, compilerVars, pipelineVars, facelessVars>>
    \/ \E i \in DOMAIN Agents : AgentCalled(i) /\ UNCHANGED <<scorerVars, dpVars, architectVars, baselineVars, limiterVars, cacheVars, sharedCacheVars, enrichmentVars, didVars, apiVars, detectorVars, compilerVars, pipelineVars, facelessVars>>
    \/ \E i \in DOMAIN Agents : AgentReturns(i) /\ UNCHANGED <<scorerVars, dpVars, architectVars, baselineVars, limiterVars, cacheVars, sharedCacheVars, enrichmentVars, didVars, apiVars, detectorVars, compilerVars, pipelineVars, facelessVars>>
    \/ \E i \in DOMAIN Agents : AgentRaises(i) /\ UNCHANGED <<scorerVars, dpVars, architectVars, baselineVars, limiterVars, cacheVars, sharedCacheVars, enrichmentVars, didVars, apiVars, detectorVars, compilerVars, pipelineVars, facelessVars>>
    \/ FinalReportReturned /\ UNCHANGED <<scorerVars, dpVars, architectVars, baselineVars, limiterVars, cacheVars, sharedCacheVars, enrichmentVars, didVars, apiVars, detectorVars, compilerVars, pipelineVars, facelessVars>>

\* AutomationAuditEngine(): generate_audit has not run yet
InitAudit ==
    /\ enriched_data = EmptyDict
    /\ report = NewConfidenceReport
    /\ score_status = "idle"
    /\ dp = NewDataPoint("UNKNOWN", 0)
    /\ clock = 0
    /\ dp_prev = NoCall
    /\ company_data = EmptyDict
    /\ audit_pc = [at |-> "research", i |-> 0]
    /\ agent_outputs = <<>>
    /\ context = EmptyDict
    /\ stage_log = <<>>
    /\ audit_report = NoReport
    /\ audit_result = "running"
    /\ architect = NewArchitectCall(<<>>)
    /\ baseline = NewBaselineCall(EmptyDict)
    /\ limiter = NewRateLimiter
    /\ cache = NewCacheManager(FALSE)
    /\ shared_cache = NewSharedCache(FALSE)
    /\ enrichment = NewEnrichmentRun(EmptyDict, EmptyDict)
    /\ did = NewDidRun
    /\ api = ApiWaiting
    /\ detector = NewDetectorCall(EmptyDict)
    /\ compiler = NewCompilerCall(<<>>)
    /\ pipeline = NewOptimizedPipeline
    /\ faceless_pipeline = NewFacelessPipeline

SpecAudit == InitAudit /\ [][NextAudit]_vars

NextArchitect ==
    \/ ArchitectAnalyzes /\ UNCHANGED <<scorerVars, dpVars, auditVars, baselineVars, limiterVars, cacheVars, sharedCacheVars, enrichmentVars, didVars, apiVars, detectorVars, compilerVars, pipelineVars, facelessVars>>

InitArchitect ==
    /\ enriched_data = EmptyDict
    /\ report = NewConfidenceReport
    /\ score_status = "idle"
    /\ dp = NewDataPoint("UNKNOWN", 0)
    /\ clock = 0
    /\ dp_prev = NoCall
    /\ company_data = EmptyDict
    /\ audit_pc = [at |-> "research", i |-> 0]
    /\ agent_outputs = <<>>
    /\ context = EmptyDict
    /\ stage_log = <<>>
    /\ audit_report = NoReport
    /\ audit_result = "running"
    /\ architect \in {NewArchitectCall(gaps) : gaps \in GapLists}
    /\ baseline = NewBaselineCall(EmptyDict)
    /\ limiter = NewRateLimiter
    /\ cache = NewCacheManager(FALSE)
    /\ shared_cache = NewSharedCache(FALSE)
    /\ enrichment = NewEnrichmentRun(EmptyDict, EmptyDict)
    /\ did = NewDidRun
    /\ api = ApiWaiting
    /\ detector = NewDetectorCall(EmptyDict)
    /\ compiler = NewCompilerCall(<<>>)
    /\ pipeline = NewOptimizedPipeline
    /\ faceless_pipeline = NewFacelessPipeline

SpecArchitect == InitArchitect /\ [][NextArchitect]_vars

NextBaseline ==
    \/ BaselineAnalyzes /\ UNCHANGED <<scorerVars, dpVars, auditVars, architectVars, limiterVars, cacheVars, sharedCacheVars, enrichmentVars, didVars, apiVars, detectorVars, compilerVars, pipelineVars, facelessVars>>
    \/ BaselineInputChanges /\ UNCHANGED <<scorerVars, dpVars, auditVars, architectVars, limiterVars, cacheVars, sharedCacheVars, enrichmentVars, didVars, apiVars, detectorVars, compilerVars, pipelineVars, facelessVars>>

InitBaseline ==
    /\ enriched_data = EmptyDict
    /\ report = NewConfidenceReport
    /\ score_status = "idle"
    /\ dp = NewDataPoint("UNKNOWN", 0)
    /\ clock = 0
    /\ dp_prev = NoCall
    /\ company_data = EmptyDict
    /\ audit_pc = [at |-> "research", i |-> 0]
    /\ agent_outputs = <<>>
    /\ context = EmptyDict
    /\ stage_log = <<>>
    /\ audit_report = NoReport
    /\ audit_result = "running"
    /\ architect = NewArchitectCall(<<>>)
    /\ baseline = NewBaselineCall(EmptyDict)
    /\ limiter = NewRateLimiter
    /\ cache = NewCacheManager(FALSE)
    /\ shared_cache = NewSharedCache(FALSE)
    /\ enrichment = NewEnrichmentRun(EmptyDict, EmptyDict)
    /\ did = NewDidRun
    /\ api = ApiWaiting
    /\ detector = NewDetectorCall(EmptyDict)
    /\ compiler = NewCompilerCall(<<>>)
    /\ pipeline = NewOptimizedPipeline
    /\ faceless_pipeline = NewFacelessPipeline

SpecBaseline == InitBaseline /\ [][NextBaseline]_vars

NextLimiter ==
    \/ \E th \in LimiterThreads : WaitIfNeededCalled(th) /\ UNCHANGED <<scorerVars, dpVars, auditVars, architectVars, baselineVars, cacheVars, sharedCacheVars, enrichmentVars, didVars, apiVars, detectorVars, compilerVars, pipelineVars, facelessVars>>
    \/ \E th \in LimiterThreads : WaitIfNeededUnlimited(th) /\ UNCHANGED <<scorerVars, dpVars, auditVars, architectVars, baselineVars, cacheVars, sharedCacheVars, enrichmentVars, didVars, apiVars, detectorVars, compilerVars, pipelineVars, facelessVars>>
    \/ \E th \in LimiterThreads : CanCallThenRecordCalled(th) /\ UNCHANGED <<scorerVars, dpVars, auditVars, architectVars, baselineVars, cacheVars, sharedCacheVars, enrichmentVars, didVars, apiVars, detectorVars, compilerVars, pipelineVars, facelessVars>>
    \/ \E th \in LimiterThreads : CanCall(th) /\ UNCHANGED <<scorerVars, dpVars, auditVars, architectVars, baselineVars, cacheVars, sharedCacheVars, enrichmentVars, didVars, apiVars, detectorVars, compilerVars, pipelineVars, facelessVars>>
    \/ \E th \in LimiterThreads : ComputeWaitTime(th) /\ UNCHANGED <<scorerVars, dpVars, auditVars, architectVars, baselineVars, cacheVars, sharedCacheVars, enrichmentVars, didVars, apiVars, detectorVars, compilerVars, pipelineVars, facelessVars>>
    \/ \E th \in LimiterThreads : SleepReturns(th) /\ UNCHANGED <<scorerVars, dpVars, auditVars, architectVars, baselineVars, cacheVars, sharedCacheVars, enrichmentVars, didVars, apiVars, detectorVars, compilerVars, pipelineVars, facelessVars>>
    \/ \E th \in LimiterThreads : RecordCall(th) /\ UNCHANGED <<scorerVars, dpVars, auditVars, architectVars, baselineVars, cacheVars, sharedCacheVars, enrichmentVars, didVars, apiVars, detectorVars, compilerVars, pipelineVars, facelessVars>>
    \/ LimiterTick /\ UNCHANGED <<scorerVars, dpVars, auditVars, architectVars, baselineVars, cacheVars, sharedCacheVars, enrichmentVars, didVars, apiVars, detectorVars, compilerVars, pipelineVars, facelessVars>>

InitLimiter ==
    /\ enriched_data = EmptyDict
    /\ report = NewConfidenceReport
    /\ score_status = "idle"
    /\ dp = NewDataPoint("UNKNOWN", 0)
    /\ clock = 0
    /\ dp_prev = NoCall
    /\ company_data = EmptyDict
    /\ audit_pc = [at |-> "research", i |-> 0]
    /\ agent_outputs = <<>>
    /\ context = EmptyDict
    /\ stage_log = <<>>
    /\ audit_report = NoReport
    /\ audit_result = "running"
    /\ architect = NewArchitectCall(<<>>)
    /\ baseline = NewBaselineCall(EmptyDict)
    /\ limiter = NewRateLimiter
    /\ cache = NewCacheManager(FALSE)
    /\ shared_cache = NewSharedCache(FALSE)
    /\ enrichment = NewEnrichmentRun(EmptyDict, EmptyDict)
    /\ did = NewDidRun
    /\ api = ApiWaiting
    /\ detector = NewDetectorCall(EmptyDict)
    /\ compiler = NewCompilerCall(<<>>)
    /\ pipeline = NewOptimizedPipeline
    /\ faceless_pipeline = NewFacelessPipeline

SpecLimiter == InitLimiter /\ [][NextLimiter]_vars

NextCache ==
    \/ \E key \in CacheKeys, value \in CacheValues, cache_type \in CacheTypes, disk_written \in BOOLEAN : CacheSet(key, value, cache_type, disk_written) /\ UNCHANGED <<scorerVars, dpVars, auditVars, architectVars, baselineVars, limiterVars, sharedCacheVars, enrichmentVars, didVars, apiVars, detectorVars, compilerVars, pipelineVars, facelessVars>>
    \/ \E key \in CacheKeys, cache_type \in CacheTypes, disk_read \in BOOLEAN : CacheGet(key, cache_type, disk_read) /\ UNCHANGED <<scorerVars, dpVars, auditVars, architectVars, baselineVars, limiterVars, sharedCacheVars, enrichmentVars, didVars, apiVars, detectorVars, compilerVars, pipelineVars, facelessVars>>
    \/ CacheTick /\ UNCHANGED <<scorerVars, dpVars, auditVars, architectVars, baselineVars, limiterVars, sharedCacheVars, enrichmentVars, didVars, apiVars, detectorVars, compilerVars, pipelineVars, facelessVars>>

InitCache ==
    /\ enriched_data = EmptyDict
    /\ report = NewConfidenceReport
    /\ score_status = "idle"
    /\ dp = NewDataPoint("UNKNOWN", 0)
    /\ clock = 0
    /\ dp_prev = NoCall
    /\ company_data = EmptyDict
    /\ audit_pc = [at |-> "research", i |-> 0]
    /\ agent_outputs = <<>>
    /\ context = EmptyDict
    /\ stage_log = <<>>
    /\ audit_report = NoReport
    /\ audit_result = "running"
    /\ architect = NewArchitectCall(<<>>)
    /\ baseline = NewBaselineCall(EmptyDict)
    /\ limiter = NewRateLimiter
    /\ cache \in {NewCacheManager(diskcache_available) : diskcache_available \in BOOLEAN}
    /\ shared_cache = NewSharedCache(FALSE)
    /\ enrichment = NewEnrichmentRun(EmptyDict, EmptyDict)
    /\ did = NewDidRun
    /\ api = ApiWaiting
    /\ detector = NewDetectorCall(EmptyDict)
    /\ compiler = NewCompilerCall(<<>>)
    /\ pipeline = NewOptimizedPipeline
    /\ faceless_pipeline = NewFacelessPipeline

SpecCache == InitCache /\ [][NextCache]_vars

NextCacheClear ==
    \/ \E key \in CacheKeys, value \in CacheValues, cache_type \in CacheTypes, disk_written \in BOOLEAN : CacheSet(key, value, cache_type, disk_written) /\ UNCHANGED <<scorerVars, dpVars, auditVars, architectVars, baselineVars, limiterVars, sharedCacheVars, enrichmentVars, didVars, apiVars, detectorVars, compilerVars, pipelineVars, facelessVars>>
    \/ \E key \in CacheKeys, cache_type \in CacheTypes, disk_read \in BOOLEAN : CacheGet(key, cache_type, disk_read) /\ UNCHANGED <<scorerVars, dpVars, auditVars, architectVars, baselineVars, limiterVars, sharedCacheVars, enrichmentVars, didVars, apiVars, detectorVars, compilerVars, pipelineVars, facelessVars>>
    \/ \E cache_type \in CacheTypes \cup {"None"} : CacheClear(cache_type) /\ UNCHANGED <<scorerVars, dpVars, auditVars, architectVars, baselineVars, limiterVars, sharedCacheVars, enrichmentVars, didVars, apiVars, detectorVars, compilerVars, pipelineVars, facelessVars>>
    \/ CacheTick /\ UNCHANGED <<scorerVars, dpVars, auditVars, architectVars, baselineVars, limiterVars, sharedCacheVars, enrichmentVars, didVars, apiVars, detectorVars, compilerVars, pipelineVars, facelessVars>>

InitCacheClear ==
    /\ enriched_data = EmptyDict
    /\ report = NewConfidenceReport
    /\ score_status = "idle"
    /\ dp = NewDataPoint("UNKNOWN", 0)
    /\ clock = 0
    /\ dp_prev = NoCall
    /\ company_data = EmptyDict
    /\ audit_pc = [at |-> "research", i |-> 0]
    /\ agent_outputs = <<>>
    /\ context = EmptyDict
    /\ stage_log = <<>>
    /\ audit_report = NoReport
    /\ audit_result = "running"
    /\ architect = NewArchitectCall(<<>>)
    /\ baseline = NewBaselineCall(EmptyDict)
    /\ limiter = NewRateLimiter
    /\ cache \in {NewCacheManager(diskcache_available) : diskcache_available \in BOOLEAN}
    /\ shared_cache = NewSharedCache(FALSE)
    /\ enrichment = NewEnrichmentRun(EmptyDict, EmptyDict)
    /\ did = NewDidRun
    /\ api = ApiWaiting
    /\ detector = NewDetectorCall(EmptyDict)
    /\ compiler = NewCompilerCall(<<>>)
    /\ pipeline = NewOptimizedPipeline
    /\ faceless_pipeline = NewFacelessPipeline

SpecCacheClear == InitCacheClear /\ [][NextCacheClear]_vars

NextSharedCache ==
    \/ \E w \in CacheWriters, cache_type \in CacheTypes : WriterBuildsEntry(w, cache_type) /\ UNCHANGED <<scorerVars, dpVars, auditVars, architectVars, baselineVars, limiterVars, cacheVars, enrichmentVars, didVars, apiVars, detectorVars, compilerVars, pipelineVars, facelessVars>>
    \/ \E w \in CacheWriters : WriterSetsMemory(w) /\ UNCHANGED <<scorerVars, dpVars, auditVars, architectVars, baselineVars, limiterVars, cacheVars, enrichmentVars, didVars, apiVars, detectorVars, compilerVars, pipelineVars, facelessVars>>
    \/ \E w \in CacheWriters, raised \in BOOLEAN : WriterSetsDisk(w, raised) /\ UNCHANGED <<scorerVars, dpVars, auditVars, architectVars, baselineVars, limiterVars, cacheVars, enrichmentVars, didVars, apiVars, detectorVars, compilerVars, pipelineVars, facelessVars>>
    \/ \E cache_type \in CacheTypes : SharedCacheGet(cache_type) /\ UNCHANGED <<scorerVars, dpVars, auditVars, architectVars, baselineVars, limiterVars, cacheVars, enrichmentVars, didVars, apiVars, detectorVars, compilerVars, pipelineVars, facelessVars>>
    \/ SharedCacheTick /\ UNCHANGED <<scorerVars, dpVars, auditVars, architectVars, baselineVars, limiterVars, cacheVars, enrichmentVars, didVars, apiVars, detectorVars, compilerVars, pipelineVars, facelessVars>>

InitSharedCache ==
    /\ enriched_data = EmptyDict
    /\ report = NewConfidenceReport
    /\ score_status = "idle"
    /\ dp = NewDataPoint("UNKNOWN", 0)
    /\ clock = 0
    /\ dp_prev = NoCall
    /\ company_data = EmptyDict
    /\ audit_pc = [at |-> "research", i |-> 0]
    /\ agent_outputs = <<>>
    /\ context = EmptyDict
    /\ stage_log = <<>>
    /\ audit_report = NoReport
    /\ audit_result = "running"
    /\ architect = NewArchitectCall(<<>>)
    /\ baseline = NewBaselineCall(EmptyDict)
    /\ limiter = NewRateLimiter
    /\ cache = NewCacheManager(FALSE)
    /\ shared_cache \in {NewSharedCache(diskcache_available) : diskcache_available \in BOOLEAN}
    /\ enrichment = NewEnrichmentRun(EmptyDict, EmptyDict)
    /\ did = NewDidRun
    /\ api = ApiWaiting
    /\ detector = NewDetectorCall(EmptyDict)
    /\ compiler = NewCompilerCall(<<>>)
    /\ pipeline = NewOptimizedPipeline
    /\ faceless_pipeline = NewFacelessPipeline

SpecSharedCache == InitSharedCache /\ [][NextSharedCache]_vars

NextEnrichment ==
    \/ \E p \in Providers : ProviderCompletes(p) /\ UNCHANGED <<scorerVars, dpVars, auditVars, architectVars, baselineVars, limiterVars, cacheVars, sharedCacheVars, didVars, apiVars, detectorVars, compilerVars, pipelineVars, facelessVars>>
    \/ MergeEnrichmentResults /\ UNCHANGED <<scorerVars, dpVars, auditVars, architectVars, baselineVars, limiterVars, cacheVars, sharedCacheVars, didVars, apiVars, detectorVars, compilerVars, pipelineVars, facelessVars>>

InitEnrichment ==
    /\ enriched_data = EmptyDict
    /\ report = NewConfidenceReport
    /\ score_status = "idle"
    /\ dp = NewDataPoint("UNKNOWN", 0)
    /\ clock = 0
    /\ dp_prev = NoCall
    /\ company_data = EmptyDict
    /\ audit_pc = [at |-> "research", i |-> 0]
    /\ agent_outputs = <<>>
    /\ context = EmptyDict
    /\ stage_log = <<>>
    /\ audit_report = NoReport
    /\ audit_result = "running"
    /\ architect = NewArchitectCall(<<>>)
    /\ baseline = NewBaselineCall(EmptyDict)
    /\ limiter = NewRateLimiter
    /\ cache = NewCacheManager(FALSE)
    /\ shared_cache = NewSharedCache(FALSE)
    /\ enrichment \in {NewEnrichmentRun(clearbit, apollo) : clearbit \in ClearbitResults, apollo \in ApolloResults}
    /\ did = NewDidRun
    /\ api = ApiWaiting
    /\ detector = NewDetectorCall(EmptyDict)
    /\ compiler = NewCompilerCall(<<>>)
    /\ pipeline = NewOptimizedPipeline
    /\ faceless_pipeline = NewFacelessPipeline

SpecEnrichment == InitEnrichment /\ [][NextEnrichment]_vars

NextDid ==
    \/ \E api_key \in BOOLEAN, post \in PostOutcomes, elapsed \in RequestSeconds : GenerateVideoDidCalled(api_key, post, elapsed) /\ UNCHANGED <<scorerVars, dpVars, auditVars, architectVars, baselineVars, limiterVars, cacheVars, sharedCacheVars, enrichmentVars, apiVars, detectorVars, compilerVars, pipelineVars, facelessVars>>
    \/ PollTimesOut /\ UNCHANGED <<scorerVars, dpVars, auditVars, architectVars, baselineVars, limiterVars, cacheVars, sharedCacheVars, enrichmentVars, apiVars, detectorVars, compilerVars, pipelineVars, facelessVars>>
    \/ \E r \in StatusOutcomes, elapsed \in RequestSeconds, oversleep \in Oversleep : PollGetsResponse(r, elapsed, oversleep) /\ UNCHANGED <<scorerVars, dpVars, auditVars, architectVars, baselineVars, limiterVars, cacheVars, sharedCacheVars, enrichmentVars, apiVars, detectorVars, compilerVars, pipelineVars, facelessVars>>

\* the call runs on: every request is answered and every sleep returns
InitDid ==
    /\ enriched_data = EmptyDict
    /\ report = NewConfidenceReport
    /\ score_status = "idle"
    /\ dp = NewDataPoint("UNKNOWN", 0)
    /\ clock = 0
    /\ dp_prev = NoCall
    /\ company_data = EmptyDict
    /\ audit_pc = [at |-> "research", i |-> 0]
    /\ agent_outputs = <<>>
    /\ context = EmptyDict
    /\ stage_log = <<>>
    /\ audit_report = NoReport
    /\ audit_result = "running"
    /\ architect = NewArchitectCall(<<>>)
    /\ baseline = NewBaselineCall(EmptyDict)
    /\ limiter = NewRateLimiter
    /\ cache = NewCacheManager(FALSE)
    /\ shared_cache = NewSharedCache(FALSE)
    /\ enrichment = NewEnrichmentRun(EmptyDict, EmptyDict)
    /\ did = NewDidRun
    /\ api = ApiWaiting
    /\ detector = NewDetectorCall(EmptyDict)
    /\ compiler = NewCompilerCall(<<>>)
    /\ pipeline = NewOptimizedPipeline
    /\ faceless_pipeline = NewFacelessPipeline

SpecDid == InitDid /\ [][NextDid]_vars /\ WF_vars(NextDid)

NextApi ==
    \/ \E req \in Requests : GenerateVideoRequested(req) /\ UNCHANGED <<scorerVars, dpVars, auditVars, architectVars, baselineVars, limiterVars, cacheVars, sharedCacheVars, enrichmentVars, didVars, detectorVars, compilerVars, pipelineVars, facelessVars>>

InitApi ==
    /\ enriched_data = EmptyDict
    /\ report = NewConfidenceReport
    /\ score_status = "idle"
    /\ dp = NewDataPoint("UNKNOWN", 0)
    /\ clock = 0
    /\ dp_prev = NoCall
    /\ company_data = EmptyDict
    /\ audit_pc = [at |-> "research", i |-> 0]
    /\ agent_outputs = <<>>
    /\ context = EmptyDict
    /\ stage_log = <<>>
    /\ audit_report = NoReport
    /\ audit_result = "running"
    /\ architect = NewArchitectCall(<<>>)
    /\ baseline = NewBaselineCall(EmptyDict)
    /\ limiter = NewRateLimiter
    /\ cache = NewCacheManager(FALSE)
    /\ shared_cache = NewSharedCache(FALSE)
    /\ enrichment = NewEnrichmentRun(EmptyDict, EmptyDict)
    /\ did = NewDidRun
    /\ api = ApiWaiting
    /\ detector = NewDetectorCall(EmptyDict)
    /\ compiler = NewCompilerCall(<<>>)
    /\ pipeline = NewOptimizedPipeline
    /\ faceless_pipeline = NewFacelessPipeline

SpecApi == InitApi /\ [][NextApi]_vars

NextDetector ==
    \/ DetectorAnalyzes /\ UNCHANGED <<scorerVars, dpVars, auditVars, architectVars, baselineVars, limiterVars, cacheVars, sharedCacheVars, enrichmentVars, didVars, apiVars, compilerVars, pipelineVars, facelessVars>>

InitDetector ==
    /\ enriched_data = EmptyDict
    /\ report = NewConfidenceReport
    /\ score_status = "idle"
    /\ dp = NewDataPoint("UNKNOWN", 0)
    /\ clock = 0
    /\ dp_prev = NoCall
    /\ company_data = EmptyDict
    /\ audit_pc = [at |-> "research", i |-> 0]
    /\ agent_outputs = <<>>
    /\ context = EmptyDict
    /\ stage_log = <<>>
    /\ audit_report = NoReport
    /\ audit_result = "running"
    /\ architect = NewArchitectCall(<<>>)
    /\ baseline = NewBaselineCall(EmptyDict)
    /\ limiter = NewRateLimiter
    /\ cache = NewCacheManager(FALSE)
    /\ shared_cache = NewSharedCache(FALSE)
    /\ enrichment = NewEnrichmentRun(EmptyDict, EmptyDict)
    /\ did = NewDidRun
    /\ api = ApiWaiting
    /\ detector \in {NewDetectorCall(input_data) : input_data \in DetectorInputs}
    /\ compiler = NewCompilerCall(<<>>)
    /\ pipeline = NewOptimizedPipeline
    /\ faceless_pipeline = NewFacelessPipeline

SpecDetector == InitDetector /\ [][NextDetector]_vars

NextCompiler ==
    \/ CompilerAnalyzes /\ UNCHANGED <<scorerVars, dpVars, auditVars, architectVars, baselineVars, limiterVars, cacheVars, sharedCacheVars, enrichmentVars, didVars, apiVars, detectorVars, pipelineVars, facelessVars>>

InitCompiler ==
    /\ enriched_data = EmptyDict
    /\ report = NewConfidenceReport
    /\ score_status = "idle"
    /\ dp = NewDataPoint("UNKNOWN", 0)
    /\ clock = 0
    /\ dp_prev = NoCall
    /\ company_data = EmptyDict
    /\ audit_pc = [at |-> "research", i |-> 0]
    /\ agent_outputs = <<>>
    /\ context = EmptyDict
    /\ stage_log = <<>>
    /\ audit_report = NoReport
    /\ audit_result = "running"
    /\ architect = NewArchitectCall(<<>>)
    /\ baseline = NewBaselineCall(EmptyDict)
    /\ limiter = NewRateLimiter
    /\ cache = NewCacheManager(FALSE)
    /\ shared_cache = NewSharedCache(FALSE)
    /\ enrichment = NewEnrichmentRun(EmptyDict, EmptyDict)
    /\ did = NewDidRun
    /\ api = ApiWaiting
    /\ detector = NewDetectorCall(EmptyDict)
    /\ compiler \in {NewCompilerCall(sequence) : sequence \in ImplementationSequences}
    /\ pipeline = NewOptimizedPipeline
    /\ faceless_pipeline = NewFacelessPipeline

SpecCompiler == InitCompiler /\ [][NextCompiler]_vars

NextPipeline ==
    \/ \E website_url \in WebsiteUrls, prospect_name \in ProspectNames, fail \in PipelineFailures : GenerateReportAndVideo(website_url, prospect_name, fail) /\ UNCHANGED <<scorerVars, dpVars, auditVars, architectVars, baselineVars, limiterVars, cacheVars, sharedCacheVars, enrichmentVars, didVars, apiVars, detectorVars, compilerVars, facelessVars>>
    \/ PipelineTick /\ UNCHANGED <<scorerVars, dpVars, auditVars, architectVars, baselineVars, limiterVars, cacheVars, sharedCacheVars, enrichmentVars, didVars, apiVars, detectorVars, compilerVars, facelessVars>>

InitPipeline ==
    /\ enriched_data = EmptyDict
    /\ report = NewConfidenceReport
    /\ score_status = "idle"
    /\ dp = NewDataPoint("UNKNOWN", 0)
    /\ clock = 0
    /\ dp_prev = NoCall
    /\ company_data = EmptyDict
    /\ audit_pc = [at |-> "research", i |-> 0]
    /\ agent_outputs = <<>>
    /\ context = EmptyDict
    /\ stage_log = <<>>
    /\ audit_report = NoReport
    /\ audit_result = "running"
    /\ architect = NewArchitectCall(<<>>)
    /\ baseline = NewBaselineCall(EmptyDict)
    /\ limiter = NewRateLimiter
    /\ cache = NewCacheManager(FALSE)
    /\ shared_cache = NewSharedCache(FALSE)
    /\ enrichment = NewEnrichmentRun(EmptyDict, EmptyDict)
    /\ did = NewDidRun
    /\ api = ApiWaiting
    /\ detector = NewDetectorCall(EmptyDict)
    /\ compiler = NewCompilerCall(<<>>)
    /\ pipeline = NewOptimizedPipeline
    /\ faceless_pipeline = NewFacelessPipeline

SpecPipeline == InitPipeline /\ [][NextPipeline]_vars

NextFaceless ==
    \/ \E call \in ProspectCalls : ProcessProspect(call) /\ UNCHANGED <<scorerVars, dpVars, auditVars, architectVars, baselineVars, limiterVars, cacheVars, sharedCacheVars, enrichmentVars, didVars, apiVars, detectorVars, compilerVars, pipelineVars>>

InitFaceless ==
    /\ enriched_data = EmptyDict
    /\ report = NewConfidenceReport
    /\ score_status = "idle"
    /\ dp = NewDataPoint("UNKNOWN", 0)
    /\ clock = 0
    /\ dp_prev = NoCall
    /\ company_data = EmptyDict
    /\ audit_pc = [at |-> "research", i |-> 0]
    /\ agent_outputs = <<>>
    /\ context = EmptyDict
    /\ stage_log = <<>>
    /\ audit_report = NoReport
    /\ audit_result = "running"
    /\ architect = NewArchitectCall(<<>>)
    /\ baseline = NewBaselineCall(EmptyDict)
    /\ limiter = NewRateLimiter
    /\ cache = NewCacheManager(FALSE)
    /\ shared_cache = NewSharedCache(FALSE)
    /\ enrichment = NewEnrichmentRun(EmptyDict, EmptyDict)
    /\ did = NewDidRun
    /\ api = ApiWaiting
    /\ detector = NewDetectorCall(EmptyDict)
    /\ compiler = NewCompilerCall(<<>>)
    /\ pipeline = NewOptimizedPipeline
    /\ faceless_pipeline = NewFacelessPipeline

SpecFaceless == InitFaceless /\ [][NextFaceless]_vars

----------------------------------------------------------------------------
(* Properties of the confidence scorer.                                    *)

\* C1: whatever mapping is passed to score_enriched_data (keys present or absent,
\* values None, empty or populated), the overall_confidence of the report it
\* returns lies in [0,1].
OverallConfidenceInUnitInterval ==
    score_status = "returned" =>
        /\ RLe(RZero, report.overall_confidence)
        /\ RLe(report.overall_confidence, ROne)

\* a report was returned for a mapping that mixes absent, None, empty and populated
\* fields, and its score is above 0
OverallConfidenceOfMixedMapping ==
    /\ score_status = "returned"
    /\ "website" \notin DOMAIN enriched_data
    /\ "company_name" \in DOMAIN enriched_data /\ enriched_data["company_name"] = PyNone
    /\ "tech_stack" \in DOMAIN enriched_data /\ enriched_data["tech_stack"] = PyList(0)
    /\ "automation_opportunities" \in DOMAIN enriched_data
    /\ Truthy(enriched_data["automation_opportunities"])
    /\ RLt(RZero, report.overall_confidence)

\* the critical fields of the mapping that hold a populated value
PopulatedCriticalFields ==
    {f \in CRITICAL_FIELDS \cap DOMAIN enriched_data : ~IsMissingValue(enriched_data[f])}

\* C3: missing critical fields never increase overall confidence: replacing the
\* populated value of a critical field by None, an empty list or an empty dict
\* gives an overall_confidence that is at most the original one.
MissingCriticalFieldNeverIncreases ==
    score_status = "returned" =>
        \A f \in PopulatedCriticalFields :
            \A empty \in {PyNone, PyList(0), PyDict(0)} :
                LET emptied == [enriched_data EXCEPT ![f] = empty]
                IN  ~ScoreEnrichedDataRaises(emptied) =>
                        RLe(ScoreEnrichedData(emptied).overall_confidence,
                            report.overall_confidence)

\* a report for a mapping with no missing critical field and a populated
\* company_size, for which emptying company_size gives a strictly lower score
EmptyingCriticalFieldLowers ==
    /\ score_status = "returned"
    /\ report.missing_critical_data = {}
    /\ "company_size" \in PopulatedCriticalFields
    /\ RLt(ScoreEnrichedData([enriched_data EXCEPT !["company_size"] = PyNone])
               .overall_confidence,
           report.overall_confidence)

\* C4: the returned report holds the low-confidence warning exactly when its
\* overall_confidence is below 0.5.
LowConfidenceWarningIffBelowHalf ==
    score_status = "returned" =>
        ((\E i \in DOMAIN report.confidence_warnings :
              report.confidence_warnings[i] = WarnLowOverall)
         <=> RLt(report.overall_confidence, Pct(50)))

\* C5: score_enriched_data never raises, whatever the mapping: it always returns a
\* report, and in it every field whose value is None or an empty list/dict has
\* field confidence 0.
ScoreNeverRaisesAndMissingScoreZero ==
    /\ score_status # "raised"
    /\ score_status = "returned" =>
           \A f \in DOMAIN enriched_data :
               IsMissingValue(enriched_data[f]) => report.field_confidences[f] = RZero

\* C6: every score recorded in field_confidences lies in [0,1], for every field
\* name, the names that contain 'confidence' included.
FieldConfidencesInUnitInterval ==
    score_status = "returned" =>
        \A f \in DOMAIN report.field_confidences :
            /\ RLe(RZero, report.field_confidences[f])
            /\ RLe(report.field_confidences[f], ROne)

\* some critical key of the mapping holds None or an empty list/dict
CriticalFieldMissing ==
    \E f \in CRITICAL_FIELDS \cap DOMAIN enriched_data : IsMissingValue(enriched_data[f])

----------------------------------------------------------------------------
(* Properties of DataPoint.calculate_confidence.                           *)

\* the bucket boundaries, in hours: 1 hour, 1 day, 7 days, 30 days, 90 days, 365 days
BucketBoundaries == {1, 24, 168, 720, 2160, 8760}

\* the multipliers from real-time down to very-stale, in hundredths
BucketMultipliers == <<100, 95, 85, 70, 50, 30, 10>>

\* C2: calculate_confidence gives source weight x freshness multiplier of the age's
\* bucket, a value in [0,1]; for a fixed source it never increases as the age
\* grows, and it changes exactly when the age has crossed one of the boundaries
\* 1 hour, 1 day, 7 days, 30 days, 90 days, 365 days.
ConfidenceNonIncreasingInAge ==
    dp.calculated =>
        /\ dp.confidence =
               Rat(DataSource[dp.source]
                       * BucketMultipliers[
                             1 + Cardinality({b \in BucketBoundaries : b <= dp.age})],
                   10000)
        /\ RLe(RZero, dp.confidence) /\ RLe(dp.confidence, ROne)
        /\ dp_prev.calculated =>
               /\ dp_prev.age <= dp.age
               /\ RLe(dp.confidence, dp_prev.confidence)
               /\ (dp.confidence # dp_prev.confidence) <=>
                      (\E b \in BucketBoundaries : dp_prev.age < b /\ b <= dp.age)

\* two calls of calculate_confidence on one DataPoint, the second a year later and
\* lower, and the DataPoint was not collected at the time of the first call
ConfidenceDroppedAcrossBoundaries ==
    /\ dp.calculated /\ dp_prev.calculated
    /\ dp_prev.age > 0 /\ dp_prev.age < 8760 /\ dp.age >= 8760
    /\ RLt(dp.confidence, dp_prev.confidence)

----------------------------------------------------------------------------
(* Properties of AutomationAuditEngine.generate_audit.                     *)

\* the six stages in pipeline order, by the class that implements each
StageOrder ==
    <<"IndustryBaselineAgent", "CurrentStateAnalyzer", "InefficiencyDetector",
      "SolutionArchitect", "ROICalculator", "ReportCompiler">>

\* C8: the six stages run strictly in the order IndustryBaseline, CurrentState,
\* InefficiencyDetector, SolutionArchitect, ROICalculator, ReportCompiler, each
\* exactly once, with no branching, retry or overlap: every stage is called only
\* after the stage before it has returned, and a run that returns a report has
\* called and left all six.
StagesRunStrictlyInOrder ==
    /\ Len(stage_log) <= 2 * Len(StageOrder)
    /\ \A k \in DOMAIN stage_log :
        /\ stage_log[k].agent = StageOrder[(k + 1) \div 2]
        /\ k % 2 = 1 => stage_log[k].event = "call"
        /\ k % 2 = 0 => stage_log[k].event \in {"return", "raise"}
        /\ k < Len(stage_log) => stage_log[k].event # "raise"
    /\ audit_pc.at = "in" <=> (Len(stage_log) % 2 = 1)
    /\ audit_result = "returned" =>
           /\ Len(stage_log) = 2 * Len(StageOrder)
           /\ stage_log[Len(stage_log)].event = "return"

\* a run in which all six stages were called and returned
AllStagesRan ==
    /\ audit_result = "returned"
    /\ Len(stage_log) = 12
    /\ stage_log[11] = [event |-> "call", agent |-> "ReportCompiler", outputs |-> 5]

\* the list holds the outputs of the first stages, one each, in stage order
OutputsInStageOrder(outputs) ==
    /\ Len(outputs) <= Len(StageOrder)
    /\ \A k \in DOMAIN outputs : outputs[k].agent_name = StageOrder[k]

\* C9: agent_outputs is append-only: each stage adds exactly one AgentOutput after
\* all earlier ones, no step removes, reorders or modifies an earlier output, each
\* stage is called with exactly the outputs of the stages before it, and the final
\* report carries the six outputs in stage order.
AgentOutputsAppendOnly ==
    /\ [](/\ OutputsInStageOrder(agent_outputs)
          /\ \A k \in DOMAIN stage_log :
                stage_log[k].outputs = (k - 1) \div 2
          /\ audit_pc.at = "in" =>
                /\ Len(agent_outputs) = audit_pc.i - 1
                /\ "industry_baseline" \in DOMAIN context =>
                       context.industry_baseline = agent_outputs[1].output
                /\ "current_state" \in DOMAIN context =>
                       context.current_state = agent_outputs[2].output
                /\ "roi_data" \in DOMAIN context =>
                       context.roi_data = agent_outputs[5].output
                /\ "agent_outputs" \in DOMAIN context =>
                       Resolve(context, agent_outputs).agent_outputs = agent_outputs
          /\ audit_result = "returned" =>
                /\ audit_report.agent_outputs = agent_outputs
                /\ Len(audit_report.agent_outputs) = Len(StageOrder))
    /\ [][\/ agent_outputs' = agent_outputs
          \/ /\ audit_pc.at = "in"
             /\ Len(agent_outputs') = Len(agent_outputs) + 1
             /\ SubSeq(agent_outputs', 1, Len(agent_outputs)) = agent_outputs
             /\ agent_outputs'[Len(agent_outputs')].agent_name = StageOrder[audit_pc.i]]_vars
    /\ [][(audit_pc.at = "in" /\ audit_pc'.at \in {"before", "final"}) =>
              Len(agent_outputs') = Len(agent_outputs) + 1]_vars

\* the report of a finished run carries six outputs, the last one ReportCompiler's
FinalReportCarriesSixOutputs ==
    /\ audit_result = "returned"
    /\ Len(audit_report.agent_outputs) = 6
    /\ audit_report.agent_outputs[6].agent_name = "ReportCompiler"
    /\ audit_report.agent_outputs[3].agent_name = "InefficiencyDetector"
    /\ Len(audit_report.agent_outputs[3].output.automation_gaps) > 0

\* C10: a failure in a stage is not contained: when stage k raises, the exception
\* leaves generate_audit, no stage after k runs and no report is returned.
StageFailurePropagates ==
    /\ [](\A k \in DOMAIN stage_log :
            stage_log[k].event = "raise" =>
                /\ k = Len(stage_log)
                /\ audit_result = "raised"
                /\ audit_pc.at = "done"
                /\ audit_report = NoReport)
    /\ [][audit_result = "raised" =>
              /\ audit_result' = "raised"
              /\ stage_log' = stage_log
              /\ agent_outputs' = agent_outputs
              /\ audit_report' = NoReport]_vars

\* the third stage raised after two stages had returned
ThirdStageRaised ==
    /\ audit_result = "raised"
    /\ Len(stage_log) = 6
    /\ stage_log[6] = [event |-> "raise", agent |-> "InefficiencyDetector", outputs |-> 2]
    /\ Len(agent_outputs) = 2
    /\ audit_report = NoReport

----------------------------------------------------------------------------
(* Properties of the audit agents.                                         *)

\* the entries of seq that have priority p, in order
WithPriority(seq, p) == SelectSeq(seq, LAMBDA e : e.priority = p)

\* C11: the opportunity ranking is deterministic and stable: for identical gaps
\* SolutionArchitect.analyze returns the same implementation_sequence, it is sorted
\* by non-decreasing priority score, and entries of equal priority keep the order
\* of their gaps in the input.
ImplementationSequenceStableSorted ==
    architect.calls > 0 =>
        LET sequence == architect.output.implementation_sequence
            entries == [i \in DOMAIN architect.gaps |->
                            SequenceEntryFor(architect.gaps[i])]
        IN  /\ Len(sequence) = Len(entries)
            /\ \A i, j \in DOMAIN sequence :
                   i < j => RLe(sequence[i].priority, sequence[j].priority)
            /\ \A i \in DOMAIN entries :
                   WithPriority(sequence, entries[i].priority)
                       = WithPriority(entries, entries[i].priority)
            /\ architect.calls > 1 => architect.output = architect.first_output

\* a second call on three gaps whose first two tie on the score with different
\* solutions, while the third, of a better score, had to move to the front
TiedGapsKeptInputOrder ==
    /\ architect.calls = 2
    /\ Len(architect.gaps) = 3
    /\ LET entries == [i \in DOMAIN architect.gaps |-> SequenceEntryFor(architect.gaps[i])]
           sequence == architect.output.implementation_sequence
       IN  /\ entries[1].priority = entries[2].priority
           /\ entries[1].automation # entries[2].automation
           /\ RLt(entries[3].priority, entries[1].priority)
           /\ sequence = <<entries[3], entries[1], entries[2]>>

\* the priority score SolutionArchitect gave to the solution of an opportunity
ScoreOfOpportunity(k) ==
    SequenceEntryFor(agent_outputs[3].output.automation_gaps[k]).priority

\* C12: report.opportunities is ranked by the SolutionArchitect priority score: an
\* opportunity with a better (lower) score never has a larger priority number
\* than one with a worse score.
OpportunitiesRankedByScore ==
    audit_result = "returned" =>
        \A a, b \in DOMAIN audit_report.opportunities :
            RLt(ScoreOfOpportunity(a), ScoreOfOpportunity(b)) =>
                audit_report.opportunities[a].priority
                    <= audit_report.opportunities[b].priority

\* the benchmark rows by industry: pain points, tech stack, automation maturity in
\* hundredths
BenchmarkRows ==
    [i \in {"Technology", "E-commerce", "Healthcare", "Professional Services"} |->
        CASE i = "Technology" ->
                <<<<"Manual deployment processes", "Inconsistent testing",
                    "Poor documentation", "Inefficient customer support",
                    "Manual data entry">>,
                  <<"AWS", "GitHub", "Slack", "Jira">>, 70>>
          [] i = "E-commerce" ->
                <<<<"Cart abandonment", "Inventory management", "Customer service scale",
                    "Order fulfillment delays", "Return processing">>,
                  <<"Shopify", "Stripe", "Mailchimp">>, 60>>
          [] i = "Healthcare" ->
                <<<<"Appointment scheduling", "Patient communication",
                    "Insurance verification", "Record management", "Follow-up care">>,
                  <<"Epic", "Salesforce Health">>, 40>>
          [] i = "Professional Services" ->
                <<<<"Proposal generation", "Time tracking", "Invoice processing",
                    "Client communication", "Document management">>,
                  <<"Office 365", "QuickBooks", "Salesforce">>, 50>>]

\* the size multiplier in tenths: 0.3, 0.5, 0.7, 0.9, 1.0 by size bucket, else 0.5
SizeMultiplierTenths(company_size) ==
    CASE company_size = "1-10 employees" -> 3
      [] company_size = "11-50 employees" -> 5
      [] company_size = "51-200 employees" -> 7
      [] company_size = "201-1000 employees" -> 9
      [] company_size = "1000+ employees" -> 10
      [] OTHER -> 5

\* C13: IndustryBaselineAgent.analyze is a fixed table lookup: the benchmark row of
\* the industry, the Technology row for an industry that is not in the table, and
\* expected_automation_level = 0.7 x size multiplier (0.5 for unknown sizes);
\* Healthcare with '11-50 employees' gives maturity 0.4 and expected level 0.35.
BaselineIsTableLookup ==
    baseline.status = "returned" =>
        LET given == baseline.input_data
            industry == IF "industry" \in DOMAIN given THEN given.industry ELSE "Technology"
            size == IF "company_size" \in DOMAIN given THEN given.company_size
                    ELSE "Unknown"
            row == BenchmarkRows[IF industry \in DOMAIN BenchmarkRows THEN industry
                                 ELSE "Technology"]
        IN  /\ baseline.output.common_pain_points = row[1]
            /\ baseline.output.typical_tech_stack = row[2]
            /\ baseline.output.industry_benchmarks.automation_maturity = Rat(row[3], 100)
            /\ baseline.output.automation_baseline.expected_automation_level
                   = Rat(7 * SizeMultiplierTenths(size), 100)
            /\ (industry = "Healthcare" /\ size = "11-50 employees") =>
                   /\ baseline.output.industry_benchmarks.automation_maturity = <<2, 5>>
                   /\ baseline.output.automation_baseline.expected_automation_level
                          = <<7, 20>>

\* the agent returned for Healthcare with 11-50 employees
HealthcareBaselineReturned ==
    /\ baseline.status = "returned"
    /\ baseline.input_data = [industry |-> "Healthcare", company_size |-> "11-50 employees"]
    /\ baseline.output.automation_baseline.expected_automation_level = <<7, 20>>

----------------------------------------------------------------------------
(* RateLimiter.                                                            *)

\* the calls recorded in the window of one period that starts at time t
RecordedInWindow(t) ==
    {j \in 1..Len(limiter.recorded) :
        limiter.recorded[j] >= t /\ limiter.recorded[j] < t + Period}

\* C14: whether the calls are admitted through wait_if_needed or through
\* can_call followed by record_call, from one thread or several, no window of
\* one period holds more recorded calls than the service's limit, and the
\* service's history never holds more entries than the limit.
RateLimitNeverExceeded ==
    /\ \A i \in 1..Len(limiter.recorded) :
            Cardinality(RecordedInWindow(limiter.recorded[i])) <= Calls
    /\ Len(limiter.history) <= Calls

----------------------------------------------------------------------------
(* CacheManager.                                                           *)

\* C15: a get with the cache type of the key's last set returns the value set
\* while the entry is younger than the type's time to live (one hour for a
\* type without a configured one) and None from then on; a get for a key that
\* was never set returns None.
CacheRoundTripWithTtl ==
    LET call == cache.last_call
        entry == cache.last_set[call.key]
    IN  call.op = "get" =>
            /\ entry = NoEntry => call.result = "None"
            /\ (entry # NoEntry /\ entry.type = call.cache_type) =>
                    call.result = (IF call.at - entry.timestamp < MaxAge(call.cache_type)
                                   THEN entry.value ELSE "None")

\* a get made exactly when the entry's age reached the time to live returned None
GetAtTtlReturnedNone ==
    LET call == cache.last_call
        entry == cache.last_set[call.key]
    IN  /\ call.op = "get"
        /\ entry # NoEntry
        /\ entry.type = call.cache_type
        /\ call.at - entry.timestamp = MaxAge(call.cache_type)
        /\ call.result = "None"

\* C16: when two set calls for one key have interleaved without a lock and
\* both have returned (no disk write having raised), the memory layer and the
\* disk layer hold the same entry, the entry of one of the two writers, and a
\* later get that finds the entry valid returns that writer's value.
ConcurrentSetsLastWriterWins ==
    (/\ AllWritersDone
     /\ shared_cache.diskcache_available
     /\ \A w \in CacheWriters : ~shared_cache.writers[w].disk_raised)
    => /\ shared_cache.memory_cache = shared_cache.disk_cache
       /\ \E w \in CacheWriters : shared_cache.memory_cache = shared_cache.writers[w].entry
       /\ shared_cache.got \in {"not called", "None", shared_cache.memory_cache.value}

----------------------------------------------------------------------------
(* DataEnrichmentEngine.                                                   *)

\* the orders in which the providers that returned data can enter the results
CompletionOrders ==
    LET named == {enrichment.results[i] : i \in 1..Len(enrichment.results)}
    IN  {order \in [1..Cardinality(named) -> named] :
            \A i, j \in DOMAIN order : i # j => order[i] # order[j]}

\* C17: for the results the providers returned, the scalar fields of the
\* merged profile are the same for every order in which the providers can
\* complete.
MergedScalarsOrderIndependent ==
    enrichment.pc = "merged" =>
        \A order \in CompletionOrders : \A f \in ScalarFields :
            MergeAll(NewEnriched, order, enrichment.returned)[f] = enrichment.enriched[f]

----------------------------------------------------------------------------
(* generate_video_did and poll_did_status.                                 *)

\* how a finished poll_did_status call ended, against the response it ended on
PollOutcomeAsSpecified ==
    (did.pc = "finished" /\ did.poll_result # NotReturned) =>
        /\ did.poll_result.kind = "success" =>
                /\ did.last.status_code = 200
                /\ did.last.status = "done"
                /\ did.poll_result.video_url = did.last.result_url
        /\ (~did.timed_out /\ did.last.status_code = 200
                /\ did.last.status \in {"error", "rejected"}) => did.poll_result = ReturnsNone
        /\ (~did.timed_out /\ ~did.last.raised /\ did.last.status_code # 200) =>
                did.poll_result = ReturnsNone
        /\ did.timed_out => did.poll_result = ReturnsNone

\* C18: poll_did_status returns a success result only after a response with
\* status 'done', carrying that response's result_url; it returns None on
\* status 'error' or 'rejected', on a status check that is not 200, and when
\* max_wait has elapsed; and whatever the responses are, it terminates.
PollsUntilDoneAndTerminates ==
    /\ []PollOutcomeAsSpecified
    /\ (did.pc = "polling") ~> (did.pc = "finished")

\* C19: generate_video_did returns None for a missing API key, a failed HTTP
\* request, a 429, a 402, any other status than 201 and a malformed response,
\* and it never raises to its caller.
GenerateFailuresReturnNone ==
    did.pc = "finished" =>
        /\ did.result # Raises
        /\ (\/ ~did.api_key
            \/ did.post.raised
            \/ did.post.status_code # 201
            \/ did.post.body \in {"no id", "not json"}) => did.result = ReturnsNone

----------------------------------------------------------------------------
(* POST /api/generate-video.                                               *)

\* the branch the answered request took: data.get('mode', 'faceless').lower()
RequestMode ==
    IF api.request.mode = Absent THEN <<"f", "a", "c", "e", "l", "e", "s", "s">> ELSE StrLower(api.request.mode.s)

\* the request carried a JSON object whose mode, when given, is a str
RequestHasBody ==
    /\ api.request.json = "object"
    /\ api.request.mode = Absent \/ api.request.mode.k = "str"

ScriptOnlyRequestIsAttempted ==
    (/\ api.pc = "answered"
     /\ api.request.json = "object"
     /\ api.request.mode = Absent
     /\ api.request.fields = {}
     /\ api.request.script.kind = "str"
     /\ api.request.script.words \in 1..MaxWords)
    => \/ api.response = Response(200, TRUE)
       \/ api.response.status = 500

----------------------------------------------------------------------------
(* InefficiencyDetector.                                                   *)

\* the pain point is, letter case aside, part of the name of a detected process
MentionedIn(pain_point, processes) ==
    \E i \in DOMAIN processes :
        StrContains(StrLower(Text(pain_point)), StrLower(Text(processes[i].process)))

\* C22: a detected process of maturity 'low' yields one gap of severity 'high',
\* one of maturity 'medium' one gap of severity 'medium', one of maturity
\* 'medium-high' or 'high' none; every pain point that no detected process
\* mentions yields one gap of severity 'high' and maturity 'missing'; and
\* manual_processes is exactly the gaps of severity 'high'.
GapsTaggedByFixedRule ==
    detector.status = "returned" =>
        LET processes == detector.input_data.current_state.detected_processes
            pain_points == detector.input_data.industry_baseline.common_pain_points
            gaps == detector.output.automation_gaps
            found == SelectSeq(gaps, LAMBDA g : g.current_maturity # "missing")
            missing == SelectSeq(gaps, LAMBDA g : g.current_maturity = "missing")
            immature == SelectSeq(processes, LAMBDA p : p.maturity \in {"low", "medium"})
            unmentioned == SelectSeq(pain_points, LAMBDA pp : ~MentionedIn(pp, processes))
        IN  /\ Len(found) = Len(immature)
            /\ \A i \in DOMAIN found :
                    /\ found[i].process = immature[i].process
                    /\ found[i].current_maturity = immature[i].maturity
                    /\ found[i].gap_severity =
                            (IF immature[i].maturity = "low" THEN "high" ELSE "medium")
            /\ Len(missing) = Len(unmentioned)
            /\ \A j \in DOMAIN missing :
                    /\ missing[j].process = unmentioned[j]
                    /\ missing[j].gap_severity = "high"
            /\ detector.output.manual_processes =
                    SelectSeq(gaps, LAMBDA g : g.gap_severity = "high")

\* a call with a medium and a low process, one pain point mentioned and one not
MixedGapsReturned ==
    /\ detector.status = "returned"
    /\ detector.input_data.current_state.detected_processes =
            <<[process |-> "CRM-based sales", maturity |-> "medium", tool |-> "HubSpot/Salesforce"],
              [process |-> "MANUAL DATA ENTRY", maturity |-> "low", tool |-> "Basic email"]>>
    /\ detector.input_data.industry_baseline.common_pain_points =
            <<"Manual data entry", "Cart abandonment">>
    /\ Len(detector.output.automation_gaps) = 3
    /\ Len(detector.output.manual_processes) = 2

\* the catalog entries whose problem name is, letter case aside, part of the process
CatalogMatches(process) ==
    {i \in DOMAIN SolutionCatalog :
        StrContains(StrLower(Text(SolutionCatalog[i].problem)), StrLower(Text(process)))}

\* the solution name, effort and priority score the rule gives a gap
RuledSolution(gap) ==
    LET matches == CatalogMatches(gap.process)
        first == CHOOSE i \in matches : \A j \in matches : i <= j
        effort == IF matches = {} THEN "high" ELSE SolutionCatalog[first].effort
        score == (IF gap.gap_severity = "high" THEN 2 ELSE 4) - (IF effort = "low" THEN 1 ELSE 0)
    IN  [solution |-> IF matches = {} THEN Text("Process Automation for ") \o Text(gap.process)
                      ELSE Text(SolutionCatalog[first].solution),
         effort |-> effort,
         priority |-> Rat(score, 2)]

\* C23: there is exactly one recommendation per gap, in gap order: the first of
\* the 5 catalog entries whose problem name is, letter case aside, part of the
\* gap's process, else 'Process Automation for <process>' with effort 'high';
\* the priority score is 1 for a gap of severity 'high' and 2 otherwise, less
\* 0.5 when the chosen solution has effort 'low'.
OneRecommendationPerGap ==
    architect.calls > 0 =>
        LET gaps == architect.gaps
            recommended == architect.output.recommended_automations
            sequence == architect.output.implementation_sequence
        IN  /\ Len(SolutionCatalog) = 5
            /\ Len(recommended) = Len(gaps)
            /\ Len(sequence) = Len(gaps)
            /\ \A k \in DOMAIN gaps :
                    /\ recommended[k].gap = gaps[k].process
                    /\ recommended[k].solution = RuledSolution(gaps[k]).solution
                    /\ recommended[k].implementation_effort = RuledSolution(gaps[k]).effort
                    /\ Cardinality({i \in DOMAIN sequence :
                            /\ sequence[i].automation = RuledSolution(gaps[k]).solution
                            /\ sequence[i].priority = RuledSolution(gaps[k]).priority})
                       = Cardinality({j \in DOMAIN gaps :
                            RuledSolution(gaps[j]) = RuledSolution(gaps[k])})

\* a call with a gap that two catalog entries match, a quick win and an unmatched gap
FirstMatchQuickWinAndGenericReturned ==
    /\ architect.calls > 0
    /\ Len(architect.gaps) = 3
    /\ Cardinality(CatalogMatches(architect.gaps[1].process)) = 2
    /\ architect.gaps[2] = GapOf("Email-only support", "medium")
    /\ architect.gaps[3].process = "Time tracking"
    /\ architect.output.recommended_automations[1].solution = Text("CRM Implementation")
    /\ architect.output.recommended_automations[3].implementation_effort = "high"

----------------------------------------------------------------------------
(* The roadmap phases of ReportCompiler                                     *)

\* the phase a priority belongs to
PhaseOfPriority(priority) ==
    IF RLt(priority, <<3, 2>>) THEN 1
    ELSE IF RLt(priority, <<5, 2>>) THEN 2 ELSE 3

\* the automations of the entries of one phase, in sequence order
InitiativesOfPhase(sequence, phase) ==
    LET members == SelectSeq(sequence, LAMBDA s : PhaseOfPriority(s.priority) = phase)
    IN  [i \in DOMAIN members |-> members[i].automation]

\* C24: the roadmap has one phase for each of the numbers 1, 2, 3 that some entry
\* of the sequence falls into by its priority (below 1.5, from 1.5 and below 2.5,
\* from 2.5), none for the others, in ascending phase number, and each phase
\* lists exactly its entries in sequence order, so every entry is in one phase.
RoadmapGroupsByPriority ==
    compiler.status = "returned" =>
        LET roadmap == compiler.roadmap
            sequence == compiler.sequence
        IN  /\ \A i \in DOMAIN roadmap :
                /\ roadmap[i].phase \in 1..3
                /\ roadmap[i].initiatives # <<>>
                /\ roadmap[i].initiatives = InitiativesOfPhase(sequence, roadmap[i].phase)
            /\ \A i, j \in DOMAIN roadmap : i < j => roadmap[i].phase < roadmap[j].phase
            /\ \A k \in DOMAIN sequence :
                \E i \in DOMAIN roadmap : roadmap[i].phase = PhaseOfPriority(sequence[k].priority)
            /\ LET Sizes[n \in 0..Len(roadmap)] ==
                       IF n = 0 THEN 0 ELSE Sizes[n - 1] + Len(roadmap[n].initiatives)
               IN  Sizes[Len(roadmap)] = Len(sequence)

\* a sequence with a boundary entry (1.5) before a quick win gave two phases
BoundaryEntryInSecondPhase ==
    /\ compiler.status = "returned"
    /\ Len(compiler.sequence) = 2
    /\ compiler.sequence[1].priority = <<3, 2>>
    /\ compiler.sequence[2].priority = <<1, 2>>
    /\ Len(compiler.roadmap) = 2
    /\ compiler.roadmap[2].phase = 2

----------------------------------------------------------------------------
(* The overall confidence of the audit report                               *)

\* the score of each data-quality condition, in percent
ConditionScores ==
    [has_direct_evidence |-> 90, multiple_sources |-> 80,
     recent_data |-> 70, industry_pattern |-> 60]

\* the mean of the scores of the conditions that hold, 0.4 when none holds
MeanOfScores(holding) ==
    LET Score(c) == IF c \in holding THEN ConditionScores[c] ELSE 0
        total == Score("has_direct_evidence") + Score("multiple_sources")
                 + Score("recent_data") + Score("industry_pattern")
    IN  IF holding = {} THEN Pct(40)
        ELSE RDiv(Pct(total), <<Cardinality(holding), 1>>)

\* the conditions that held for each of the five stages of a returned run
ConditionsOfStage(k) ==
    LET outputs == audit_report.agent_outputs
        evidence(found) == IF found THEN {"has_direct_evidence"} ELSE {}
    IN  CASE k = 1 -> {"industry_pattern"}
                      \cup evidence(Get(company_data, "industry", "Technology")
                                        \in DOMAIN IndustryData)
          [] k = 2 -> {"recent_data"}
                      \cup evidence(Get(company_data, "tech_stack", {}) # {})
          [] k = 3 -> {"industry_pattern"}
                      \cup evidence(outputs[2].output.detected_processes # <<>>)
          [] k = 4 -> {"industry_pattern"}
                      \cup evidence(outputs[3].output.automation_gaps # <<>>)
          [] k = 5 -> {"industry_pattern"}

\* C25: the overall_confidence of a returned audit report is the arithmetic mean
\* of the confidences of the five stages that ran before ReportCompiler, each of
\* which is the mean of the scores of the conditions that held for it (0.4 when
\* none holds), and it lies between 0.4 and 0.9.
OverallConfidenceIsMeanOfStages ==
    audit_result = "returned" =>
        LET outputs == audit_report.agent_outputs
        IN  /\ Len(outputs) = 6
            /\ \A k \in 1..5 :
                /\ outputs[k].confidence = MeanOfScores(ConditionsOfStage(k))
                /\ outputs[k].confidence
                       \in {MeanOfScores(holding) : holding \in SUBSET DOMAIN ConditionScores}
            /\ audit_report.overall_confidence
                   = RDiv(RSum([k \in 1..5 |-> outputs[k].confidence]), <<5, 1>>)
            /\ RLe(Pct(40), audit_report.overall_confidence)
            /\ RLe(audit_report.overall_confidence, Pct(90))

\* a report of a run whose baseline stage had no direct evidence and whose
\* current-state stage had it
MixedStageConfidencesAveraged ==
    /\ audit_result = "returned"
    /\ audit_report.agent_outputs[1].confidence = Pct(60)
    /\ audit_report.agent_outputs[2].confidence = Pct(80)
    /\ audit_report.overall_confidence = Pct(70)

----------------------------------------------------------------------------
(* RateLimiter.wait_if_needed.                                             *)

\* C26: the value wait_if_needed returns is 0 when the call was admitted without
\* waiting, and for a service with no configured limit, and otherwise a
\* non-negative wait time.
WaitTimeReturnedNonNegative ==
    /\ limiter.returned.wait_time >= 0
    /\ ~limiter.returned.slept => limiter.returned.wait_time = 0

\* C27: a call of wait_if_needed waits until it is admitted and ends only by
\* returning, with exactly one new call recorded for a rate-limited service and
\* none for a service with no configured limit; it never ends while it waits.
WaitIfNeededEndsAdmitted ==
    /\ \A th \in LimiterThreads : limiter.threads[th].pc # "raised"
    /\ limiter.returned.service = Service => limiter.returned.recorded = 1
    /\ limiter.returned.service = "unknown" => limiter.returned.recorded = 0

----------------------------------------------------------------------------
(* OptimizedPipeline.generate_report_and_video.                            *)

\* the cache holds a complete result under the key of the pair
HoldsCompleteEntry(website_url, prospect_name) ==
    EntriesAt(pipeline.store, CompleteKey(website_url, prospect_name)) # {}

\* C28: the cache holds a complete result for a (website_url, prospect_name)
\* pair only if an earlier call for that pair returned success true; a call in
\* which a phase raises returns success false and does not set the complete
\* entry; a call that finds a valid complete entry returns it without running a
\* phase or recording a rate-limited call.
CompleteEntryOnlyAfterSuccess ==
    /\ \A website_url \in WebsiteUrls, prospect_name \in ProspectNames :
            HoldsCompleteEntry(website_url, prospect_name)
                => MadeFor(website_url, prospect_name) \in pipeline.succeeded
    /\ pipeline.last.result = "failure" => ~pipeline.last.set_complete
    /\ pipeline.last.result = "cached" =>
            /\ pipeline.last.phases_run = 0
            /\ pipeline.last.recorded = 0

----------------------------------------------------------------------------
(* FacelessVideoPipeline.process_prospect.                                 *)

----------------------------------------------------------------------------
(* CacheManager.clear.                                                     *)

\* C30: after clear(t) no entry that was set with type t is returned by a later
\* get, from either layer, until it is set again; an entry set with another type
\* is still returned while it is valid; clear() without a type empties both
\* layers.
ClearedTypeNotReturned ==
    LET call == cache.last_call
        entry == cache.last_set[call.key]
    IN  /\ (call.op = "get" /\ cache.cleared[call.key]) => call.result = "None"
        /\ (/\ call.op = "get"
            /\ entry # NoEntry
            /\ ~cache.cleared[call.key]
            /\ entry.type = call.cache_type
            /\ call.at - entry.timestamp < MaxAge(call.cache_type))
                => call.result = entry.value
        /\ (call.op = "clear" /\ call.cache_type = "None") =>
                \A k \in CacheKeys :
                    cache.memory_cache[k] = NoEntry /\ cache.disk_cache[k] = NoEntry

====
